---- MODULE Spec2Model ----
(***************************************************************************)
(* Survey service of formbricks: the prisma store of surveys and segments, *)
(* the unstable_cache entries of the cached survey reads with their tags,  *)
(* and the mutations (createSurvey, updateSurvey, deleteSurvey,            *)
(* duplicateSurvey, loadNewSegmentInSurvey) with their await points.       *)
(***************************************************************************)
EXTENDS Integers, Sequences, FiniteSets, TLC

\* ------------------------------------------------------------------ bounds
\* Survey ids are generated 1, 2, ... and never reused.
MaxSurveys == 2
\* Number of entries the cache backend retains at once (older ones expire).
CacheCapacity == 2
\* Number of mutation requests served in one run.
MaxRequests == 1
\* Displays recorded per person.
MaxDisplays == 1
\* Displays in a person's history when an eligibility request arrives.
MaxHistory == 2

\* ------------------------------------------------------------- fixed data
Environments == {1}
Persons == {1}
\* The person ids a caller may pass: those of the store and one that is unknown.
PersonInputs == Persons \cup {Cardinality(Persons) + 1}
SurveyIds == 1..MaxSurveys
\* Segment 0 is a shared segment; segment n > 0 is the private segment
\* created for survey n.
SegmentIds == 0..MaxSurveys
SurveyNames == {"n0", "n1"}

\* The action classes of the store, as getActionClasses(environmentId) lists them.
ActionClassTable == {[id |-> 1, name |-> "a", environmentId |-> 1]}
ActionClassIds == {ac.id : ac \in ActionClassTable}
TriggerNames == {ac.name : ac \in ActionClassTable}

\* The action classes of environment 2, whose surveys have several triggers.
TriggerClassTable ==
  { [id |-> 2, name |-> "b", environmentId |-> 2],
    [id |-> 3, name |-> "c", environmentId |-> 2],
    [id |-> 4, name |-> "d", environmentId |-> 2] }

getActionClasses(environmentId) ==
  {ac \in ActionClassTable \cup TriggerClassTable : ac.environmentId = environmentId}

getActionClassIdFromName(actionClasses, actionClassName) ==
  (CHOOSE ac \in actionClasses : ac.name = actionClassName).id

ActionClassNameOf(actionClassId) ==
  (CHOOSE ac \in ActionClassTable \cup TriggerClassTable : ac.id = actionClassId).name

VARIABLES
  surveys,    \* prisma.survey: id -> row (triggers are the bound action class ids)
  segments,   \* prisma.segment: id -> row
  nextId,     \* next auto-generated survey id
  cache,      \* unstable_cache: key -> [value, tags]
  op,         \* the mutation request in flight, with its position and locals
  last,       \* the request that ended last, until another one is accepted
  people,     \* person id -> [environmentId, attributes]
  displays,   \* person id -> the person's displays, latest first
  actions,    \* person id -> the action class ids the person performed
  products,   \* environment id -> [recontactDays]
  now,        \* the current day
  requests,   \* mutation requests started so far
  responses   \* prisma.response: id -> [surveyId, personId, createdAt, notes]

vars == <<surveys, segments, nextId, cache, op, last, people, displays, actions, products,
          now, requests, responses>>

\* ------------------------------------------------------------- store reads
IdSeq == [i \in 1..MaxSurveys |-> i]

SegmentSurveys(segmentId) ==
  {i \in DOMAIN surveys : surveys[i].segmentId = <<segmentId>>}

\* The row of a survey as selectSurvey returns it, transformed to a TSurvey:
\* triggers mapped to the action class names, the segment with the ids of its surveys.
selectSurvey(id) ==
  LET row == surveys[id] IN
  [ id            |-> id,
    dates         |-> "date",
    environmentId |-> row.environmentId,
    name          |-> row.name,
    status        |-> row.status,
    type          |-> row.type,
    displayOption |-> row.displayOption,
    recontactDays |-> row.recontactDays,
    runOnDate     |-> row.runOnDate,
    languages     |-> row.languages,
    triggers      |-> {ActionClassNameOf(a) : a \in row.triggers},
    segment       |->
      IF row.segmentId = <<>> \/ row.segmentId[1] \notin DOMAIN segments THEN <<>>
      ELSE LET g == row.segmentId[1] IN
           << [ id        |-> g,
                isPrivate |-> segments[g].isPrivate,
                filters   |-> segments[g].filters,
                surveys   |-> SegmentSurveys(g) ] >> ]

\* prisma.survey.findMany({where}) in creation order.
\* where: the ids of the rows the where clause selects.
findMany(where) ==
  LET ids == SelectSeq(IdSeq, LAMBDA i : i \in DOMAIN surveys /\ i \in where)
  IN  [k \in 1..Len(ids) |-> selectSurvey(ids[k])]

Take(seq, limit) ==
  IF limit = 0 \/ limit >= Len(seq) THEN seq ELSE SubSeq(seq, 1, limit)

\* ------------------------------------------------------------ tag registry
surveyTagById(id) == <<"surveys", "id", id>>
surveyTagByEnvironmentId(e) == <<"surveys", "environmentId", e>>
surveyTagByActionClassId(a) == <<"surveys", "actionClassId", a>>
surveyTagBySegmentId(g) == <<"surveys", "segmentId", g>>
segmentTagById(g) == <<"segments", "id", g>>
segmentTagByEnvironmentId(e) == <<"segments", "environmentId", e>>
personTagById(p) == <<"people", "id", p>>
personTagByEnvironmentId(e) == <<"people", "environmentId", e>>
displayTagByPersonId(p) == <<"displays", "personId", p>>
productTagByEnvironmentId(e) == <<"products", "environmentId", e>>
actionTagByPersonId(p) == <<"actions", "personId", p>>

\* surveyCache.revalidate({id, environmentId, actionClassId, segmentId}): the tags
\* of the keys given; an absent key is the empty sequence.
surveyCacheRevalidate(id, environmentId, actionClassId, segmentId) ==
     {surveyTagById(id[i]) : i \in DOMAIN id}
  \cup {surveyTagByEnvironmentId(environmentId[i]) : i \in DOMAIN environmentId}
  \cup {surveyTagByActionClassId(actionClassId[i]) : i \in DOMAIN actionClassId}
  \cup {surveyTagBySegmentId(segmentId[i]) : i \in DOMAIN segmentId}

segmentCacheRevalidate(id, environmentId) ==
     {segmentTagById(id[i]) : i \in DOMAIN id}
  \cup {segmentTagByEnvironmentId(environmentId[i]) : i \in DOMAIN environmentId}

\* revalidateTag over a set of tags: every entry carrying one of them is dropped.
invalidate(c, tags) ==
  [k \in {k \in DOMAIN c : c[k].tags \cap tags = {}} |-> c[k]]

\* ------------------------------------------------- segment filter evaluator
\* A filter node: a leaf over an attribute, a performed action or the device, or a
\* connective over child nodes. segment.filters is <<>> or <<root>>.
AttributeLeaf(attr, operator, value) ==
  [kind |-> "attribute", attr |-> attr, operator |-> operator, value |-> value,
   actionClassId |-> 0, children |-> <<>>]
ActionLeaf(actionClassId) ==
  [kind |-> "action", attr |-> "", operator |-> "", value |-> "",
   actionClassId |-> actionClassId, children |-> <<>>]
DeviceLeaf(operator, value) ==
  [kind |-> "device", attr |-> "", operator |-> operator, value |-> value,
   actionClassId |-> 0, children |-> <<>>]
Connective(kind, children) ==
  [kind |-> kind, attr |-> "", operator |-> "", value |-> "",
   actionClassId |-> 0, children |-> children]

HasAttribute(attributes, attr) ==
  attr \in DOMAIN attributes /\ attributes[attr] # ""

RECURSIVE evaluateNode(_, _)
evaluateNode(ctx, node) ==
  CASE node.kind = "attribute" ->
         /\ HasAttribute(ctx.attributes, node.attr)
         /\ CASE node.operator = "equals" -> ctx.attributes[node.attr] = node.value
              [] node.operator = "notEquals" -> ctx.attributes[node.attr] # node.value
              [] OTHER -> FALSE
    [] node.kind = "action" -> node.actionClassId \in ctx.actionIds
    [] node.kind = "device" ->
         CASE node.operator = "equals" -> ctx.deviceType = node.value
           [] node.operator = "notEquals" -> ctx.deviceType # node.value
           [] OTHER -> FALSE
    [] node.kind = "and" ->
         \A i \in DOMAIN node.children : evaluateNode(ctx, node.children[i])
    [] node.kind = "or" ->
         \E i \in DOMAIN node.children : evaluateNode(ctx, node.children[i])
    [] OTHER -> FALSE

evaluateSegment(ctx, filters) ==
  \A i \in DOMAIN filters : evaluateNode(ctx, filters[i])

\* transformSegmentFiltersToAttributeFilters: the flat list of attribute triples
\* of the filters, [ok |-> FALSE] (null) when the filters have no flat equivalent.
AttributeFilter(node) ==
  [attributeClassName |-> node.attr, operator |-> node.operator, value |-> node.value]

transformSegmentFiltersToAttributeFilters(filters) ==
  IF filters = <<>> THEN [ok |-> TRUE, list |-> <<>>]
  ELSE LET root == filters[1] IN
    CASE root.kind = "attribute" -> [ok |-> TRUE, list |-> <<AttributeFilter(root)>>]
      [] root.kind = "and"
         /\ \A i \in DOMAIN root.children : root.children[i].kind = "attribute" ->
           [ok |-> TRUE,
            list |-> [i \in DOMAIN root.children |-> AttributeFilter(root.children[i])]]
      [] OTHER -> [ok |-> FALSE, list |-> <<>>]

anySurveyHasFilters(list) ==
  \E i \in DOMAIN list : list[i].segment # <<>> /\ list[i].segment[1].filters # <<>>

diffInDays(d1, d2) == IF d1 >= d2 THEN d1 - d2 ELSE d2 - d1

\* --------------------------------------------------- cache backend and reads
\* JSON round trip of unstable_cache: Date fields are stored as strings.
Serialize(value) ==
  [i \in DOMAIN value |-> [value[i] EXCEPT !.dates = "string"]]

formatSurveyDateFields(survey) == [survey EXCEPT !.dates = "date"]

FormatAll(value) == [i \in DOMAIN value |-> formatSurveyDateFields(value[i])]

Store(c, key, entry) ==
  IF Cardinality(DOMAIN c) < CacheCapacity
  THEN [k \in DOMAIN c \cup {key} |-> IF k = key THEN entry ELSE c[k]]
  ELSE c

Entry(value, tags, deviceType, version) ==
  [value |-> value, tags |-> tags, deviceType |-> deviceType, version |-> version]

\* unstable_cache(fn, [key], {tags})(): the stored value on a hit; on a miss the
\* result of fn, stored unless fn threw.
unstableCache(c, key, tags, result) ==
  IF key \in DOMAIN c
  THEN [cache |-> c, hit |-> TRUE, error |-> "", value |-> c[key].value]
  ELSE IF result.error # ""
  THEN [cache |-> c, hit |-> FALSE, error |-> result.error, value |-> <<>>]
  ELSE [cache |-> Store(c, key, Entry(Serialize(result.value), tags, "", "")),
        hit |-> FALSE, error |-> "", value |-> result.value]

Ok(value) == [error |-> "", value |-> value]

getSurveyKey(id) == <<"getSurvey", id, 0>>
getSurveyTags(id) == {surveyTagById(id)}
getSurveyCallback(id) ==
  Ok(IF id \in DOMAIN surveys THEN <<selectSurvey(id)>> ELSE <<>>)
getSurvey(c, id) ==
  LET r == unstableCache(c, getSurveyKey(id), getSurveyTags(id), getSurveyCallback(id))
  IN  [r EXCEPT !.value = FormatAll(r.value)]

getSurveysByActionClassIdKey(a) == <<"getSurveysByActionClassId", a, 0>>
getSurveysByActionClassIdTags(a) == {surveyTagByActionClassId(a)}
getSurveysByActionClassIdCallback(a) ==
  Ok(findMany({i \in DOMAIN surveys : a \in surveys[i].triggers}))
getSurveysByActionClassId(c, a) ==
  LET r == unstableCache(c, getSurveysByActionClassIdKey(a),
                         getSurveysByActionClassIdTags(a),
                         getSurveysByActionClassIdCallback(a))
  IN  [r EXCEPT !.value = FormatAll(r.value)]

\* limit 0 stands for an undefined limit (take: undefined).
getSurveysKey(e, limit) == <<"getSurveys", e, limit>>
\* Faulty variant: the entry tagged with the id tag function instead of byEnvironmentId.
getSurveysTags_ById(e) == {surveyTagById(e)}
getSurveysTags(e) == {surveyTagByEnvironmentId(e)}
getSurveysCallback(e, limit) ==
  Ok(Take(findMany({i \in DOMAIN surveys : surveys[i].environmentId = e}), limit))
getSurveys(c, e, limit) ==
  LET r == unstableCache(c, getSurveysKey(e, limit), getSurveysTags(e),
                         getSurveysCallback(e, limit))
  IN  [r EXCEPT !.value = FormatAll(r.value)]

getSurveyCountKey(e) == <<"getSurveyCount", e, 0>>
getSurveyCountTags(e) == {surveyTagByEnvironmentId(e)}
getSurveyCountCallback(e) ==
  Cardinality({i \in DOMAIN surveys : surveys[i].environmentId = e})
getSurveyCount(c, e) ==
  LET key == getSurveyCountKey(e) IN
  IF key \in DOMAIN c
  THEN [cache |-> c, hit |-> TRUE, error |-> "", value |-> c[key].value]
  ELSE [cache |-> Store(c, key, Entry(<<getSurveyCountCallback(e)>>,
                                      getSurveyCountTags(e), "", "")),
        hit |-> FALSE, error |-> "", value |-> <<getSurveyCountCallback(e)>>]

getSurveysBySegmentIdKey(g) == <<"getSurveysBySegmentId", g, 0>>
getSurveysBySegmentIdTags(g) == {surveyTagBySegmentId(g), segmentTagById(g)}
getSurveysBySegmentIdCallback(g) ==
  Ok(findMany({i \in DOMAIN surveys : surveys[i].segmentId = <<g>>}))
\* Returns the cached value as it is: no formatSurveyDateFields here.
getSurveysBySegmentId(c, g) ==
  unstableCache(c, getSurveysBySegmentIdKey(g), getSurveysBySegmentIdTags(g),
                getSurveysBySegmentIdCallback(g))

\* ------------------------------------------------------------ getSyncSurveys
\* Person id 0 is the "legacy" person: no lookup, no attributes.
getPerson(p) ==
  IF p = 0 THEN <<[id |-> 0, attributes |-> <<>>]>>
  ELSE IF p \in DOMAIN people THEN <<[id |-> p, attributes |-> people[p].attributes]>>
  ELSE <<>>

getDisplaysByPersonId(p) == IF p \in DOMAIN displays THEN displays[p] ELSE <<>>

getActionsByPersonId(p) == IF p \in DOMAIN actions THEN actions[p] ELSE {}

DisplaysOfSurvey(ds, surveyId) == SelectSeq(ds, LAMBDA d : d.surveyId = surveyId)

ValidDisplayOption(survey) ==
  survey.displayOption \in {"respondMultiple", "displayOnce", "displayMultiple"}

\* Faulty variant: displayMultiple counting every display of the survey.
displayOptionPasses_AnyDisplay(survey, ds) ==
  CASE survey.displayOption = "respondMultiple" -> TRUE
    [] survey.displayOption \in {"displayOnce", "displayMultiple"} ->
         Len(DisplaysOfSurvey(ds, survey.id)) = 0
    [] OTHER -> FALSE

displayOptionPasses(survey, ds) ==
  CASE survey.displayOption = "respondMultiple" -> TRUE
    [] survey.displayOption = "displayOnce" ->
         Len(DisplaysOfSurvey(ds, survey.id)) = 0
    [] survey.displayOption = "displayMultiple" ->
         Len(SelectSeq(ds, LAMBDA d : d.surveyId = survey.id /\ d.responseId # <<>>)) = 0
    [] OTHER -> FALSE

\* Faulty variant: the survey's recontactDays measured from the latest display of
\* any survey.
recontactPasses_LatestOverall(survey, ds, product) ==
  IF ds = <<>> THEN TRUE
  ELSE IF survey.recontactDays # <<>>
  THEN diffInDays(now, ds[1].createdAt) >= survey.recontactDays[1]
  ELSE IF product.recontactDays # <<>>
  THEN diffInDays(now, ds[1].createdAt) >= product.recontactDays[1]
  ELSE TRUE

\* recontactDays is <<>> (null) or <<days>>, on the survey and on the product.
recontactPasses(survey, ds, product) ==
  IF ds = <<>> THEN TRUE
  ELSE IF survey.recontactDays # <<>>
  THEN LET own == DisplaysOfSurvey(ds, survey.id) IN
       IF own = <<>> THEN TRUE
       ELSE diffInDays(now, own[1].createdAt) >= survey.recontactDays[1]
  ELSE IF product.recontactDays # <<>>
  THEN diffInDays(now, ds[1].createdAt) >= product.recontactDays[1]
  ELSE TRUE

\* Faulty variant: notEquals holding for an attribute the person lacks.
attributeFilterHolds_AbsentNotEqual(person, attributeFilter) ==
  IF attributeFilter.operator = "equals"
  THEN /\ HasAttribute(person.attributes, attributeFilter.attributeClassName)
       /\ person.attributes[attributeFilter.attributeClassName] = attributeFilter.value
  ELSE IF attributeFilter.operator = "notEquals"
  THEN \/ ~HasAttribute(person.attributes, attributeFilter.attributeClassName)
       \/ person.attributes[attributeFilter.attributeClassName] # attributeFilter.value
  ELSE FALSE

attributeFilterHolds(person, attributeFilter) ==
  IF ~HasAttribute(person.attributes, attributeFilter.attributeClassName) THEN FALSE
  ELSE IF attributeFilter.operator = "equals"
  THEN person.attributes[attributeFilter.attributeClassName] = attributeFilter.value
  ELSE IF attributeFilter.operator = "notEquals"
  THEN person.attributes[attributeFilter.attributeClassName] # attributeFilter.value
  ELSE FALSE

\* Faulty variant: attributeFilters.some in place of attributeFilters.every.
segmentPasses_AnyTriple(survey, person, actionIds, environmentId, deviceType, version) ==
  IF survey.segment = <<>> THEN TRUE
  ELSE LET segment == survey.segment[1] IN
    IF version = ""
    THEN LET attributeFilters == transformSegmentFiltersToAttributeFilters(segment.filters) IN
         IF ~attributeFilters.ok THEN FALSE
         ELSE IF attributeFilters.list = <<>> THEN TRUE
         ELSE \E i \in DOMAIN attributeFilters.list :
                attributeFilterHolds(person, attributeFilters.list[i])
    ELSE evaluateSegment([attributes |-> person.attributes, actionIds |-> actionIds,
                          deviceType |-> deviceType, environmentId |-> environmentId,
                          personId |-> person.id], segment.filters)

\* version "" stands for no options.version.
segmentPasses(survey, person, actionIds, environmentId, deviceType, version) ==
  IF survey.segment = <<>> THEN TRUE
  ELSE LET segment == survey.segment[1] IN
    IF version = ""
    THEN LET attributeFilters == transformSegmentFiltersToAttributeFilters(segment.filters) IN
         IF ~attributeFilters.ok THEN FALSE
         ELSE IF attributeFilters.list = <<>> THEN TRUE
         ELSE \A i \in DOMAIN attributeFilters.list :
                attributeFilterHolds(person, attributeFilters.list[i])
    ELSE evaluateSegment([attributes |-> person.attributes, actionIds |-> actionIds,
                          deviceType |-> deviceType, environmentId |-> environmentId,
                          personId |-> person.id], segment.filters)

\* Faulty variant: stage 1 keeps the web surveys of any status.
runningWebSurvey_AnyStatus(survey) == survey.type = "web"
\* surveys.filter((survey) => survey.status === "inProgress" && survey.type === "web")
runningWebSurvey(survey) == survey.status = "inProgress" /\ survey.type = "web"

\* The awaited evaluateSegment of a survey rejects: faults holds the ids of the
\* surveys whose evaluation fails (a failing lookup of the evaluator).
segmentRaises(survey, version, faults) ==
  survey.segment # <<>> /\ version # "" /\ survey.id \in faults

\* The eligibility pipeline over the surveys getSurveys(environmentId) returned.
\* A rejected promise of surveyPromises rejects Promise.all and so the callback.
syncPipelineWith(all, product, person, environmentId, deviceType, version, faults) ==
  LET running == SelectSeq(all, runningWebSurvey)
      ds == getDisplaysByPersonId(person.id)
      shown == SelectSeq(running, LAMBDA s : displayOptionPasses(s, ds))
      due == SelectSeq(shown, LAMBDA s : recontactPasses(s, ds, product))
      actionIds == getActionsByPersonId(person.id)
  IN
  IF running = <<>> THEN Ok(<<>>)
  ELSE IF \E i \in DOMAIN running : ~ValidDisplayOption(running[i])
  THEN [error |-> "Invalid displayOption", value |-> <<>>]
  ELSE IF due = <<>> THEN Ok(<<>>)
  ELSE IF ~anySurveyHasFilters(due) THEN Ok(due)
  ELSE IF \E i \in DOMAIN due : segmentRaises(due[i], version, faults)
  THEN [error |-> "evaluateSegment rejected", value |-> <<>>]
  ELSE Ok(SelectSeq(due, LAMBDA s :
            segmentPasses(s, person, actionIds, environmentId, deviceType, version)))

getSyncSurveysKey(e, p) == <<"getSyncSurveys", e, p>>
getSyncSurveysTags(e, p) ==
  { personTagByEnvironmentId(e), personTagById(p), displayTagByPersonId(p),
    surveyTagByEnvironmentId(e), productTagByEnvironmentId(e) }

\* The callback of getSyncSurveys; its getSurveys call goes through the cache.
getSyncSurveysCallback(c, e, p, deviceType, version, faults) ==
  IF e \notin DOMAIN products
  THEN [cache |-> c, error |-> "Product not found", value |-> <<>>]
  ELSE IF getPerson(p) = <<>>
  THEN [cache |-> c, error |-> "Person not found", value |-> <<>>]
  ELSE LET inner == getSurveys(c, e, 0)
           r == syncPipelineWith(inner.value, products[e], getPerson(p)[1], e,
                                 deviceType, version, faults)
       IN  [cache |-> inner.cache, error |-> r.error, value |-> r.value]

getSyncSurveysWith(c, e, p, deviceType, version, faults) ==
  LET key == getSyncSurveysKey(e, p) IN
  IF key \in DOMAIN c
  THEN [cache |-> c, hit |-> TRUE, error |-> "", value |-> FormatAll(c[key].value)]
  ELSE LET r == getSyncSurveysCallback(c, e, p, deviceType, version, faults) IN
       IF r.error # ""
       THEN [cache |-> r.cache, hit |-> FALSE, error |-> r.error, value |-> <<>>]
       ELSE [cache |-> Store(r.cache, key,
                             Entry(Serialize(r.value), getSyncSurveysTags(e, p),
                                   deviceType, version)),
             hit |-> FALSE, error |-> "", value |-> FormatAll(r.value)]

\* getSyncSurveys when no evaluation fails.
getSyncSurveys(c, e, p, deviceType, version) ==
  getSyncSurveysWith(c, e, p, deviceType, version, {})

\* ------------------------------------------------------------ initial state
PlanPro == <<AttributeLeaf("plan", "equals", "pro")>>
PhoneOnly == <<DeviceLeaf("equals", "phone")>>
Malformed == <<Connective("malformed", <<>>)>>

\* ZSegmentFilters.safeParse(filters).success
ValidFilters(filters) == \A i \in DOMAIN filters : filters[i].kind # "malformed"

SurveyRow(environmentId, name, status, triggers, segmentId) ==
  [ environmentId |-> environmentId, name |-> name, status |-> status, type |-> "web",
    displayOption |-> "respondMultiple", recontactDays |-> <<>>, runOnDate |-> <<>>,
    languages |-> <<>>,
    triggers |-> triggers, segmentId |-> segmentId ]

SegmentRow(environmentId, isPrivate, title, filters) ==
  [environmentId |-> environmentId, isPrivate |-> isPrivate, title |-> title,
   filters |-> filters]

\* op.revalidated: the tags this request has passed to surveyCache.revalidate so far;
\* op.wrote: its prisma.survey write is done.
Idle ==
  [ name |-> "idle", pc |-> "", id |-> 0, environmentId |-> 0, surveyName |-> <<>>,
    status |-> "", runOnDate |-> <<>>, languages |-> <<>>, triggers |-> {}, segment |-> <<>>, newSegmentId |-> 0,
    current |-> <<>>, revalidated |-> {}, wrote |-> FALSE ]

\* last.triggers: the action class ids bound to the survey before or after the
\* request; last.changed: those it added or removed; last.segments: the segment
\* ids the survey was attached to before or after it.
\* last.tags: the tags of its closing revalidation; last.dropped: that revalidation
\* removed an entry.
NoLast ==
  [name |-> "none", ok |-> FALSE, id |-> 0, environmentId |-> 0, triggers |-> {},
   changed |-> {}, segments |-> {}, tags |-> {}, dropped |-> FALSE]

Returned(name, id, environmentId, triggers, changed, segs, tags) ==
  [ name |-> name, ok |-> TRUE, id |-> id, environmentId |-> environmentId,
    triggers |-> triggers, changed |-> changed, segments |-> segs, tags |-> tags,
    dropped |-> \E k \in DOMAIN cache : cache[k].tags \cap tags # {} ]

Failed(name, id) == [NoLast EXCEPT !.name = name, !.id = id]

\* One running web survey with trigger "a" and its private segment, a shared
\* segment, one person without displays or actions.
StoreInit ==
  /\ surveys = (1 :> SurveyRow(1, <<"n0">>, "inProgress", {1}, <<1>>))
  /\ segments = (0 :> SegmentRow(1, FALSE, 0, PlanPro)) @@ (1 :> SegmentRow(1, TRUE, 1, <<>>))
  /\ nextId = 2
  /\ people = (1 :> [environmentId |-> 1, attributes |-> [a \in {"plan"} |-> "pro"]])
  /\ displays = (1 :> <<>>)
  /\ actions = (1 :> {})
  /\ products = (1 :> [recontactDays |-> <<>>])
  /\ now = 10
  /\ responses = <<>>

Init ==
  /\ StoreInit
  /\ cache = <<>>
  /\ op = Idle
  /\ last = NoLast
  /\ requests = 0

world == <<people, displays, actions, products, now, responses>>

\* A mutation request arrives while none is in flight.
Accept ==
  /\ op = Idle
  /\ requests < MaxRequests
  /\ requests' = requests + 1
store == <<surveys, segments, nextId>>

\* ------------------------------------------------------------------- reads
\* Each cached read is one get-or-compute of the cache backend.
ReadSurvey(id) ==
  /\ cache' = getSurvey(cache, id).cache
  /\ UNCHANGED <<store, op, last, world, requests>>

ReadSurveys(e, limit) ==
  /\ cache' = getSurveys(cache, e, limit).cache
  /\ UNCHANGED <<store, op, last, world, requests>>

ReadSurveyCount(e) ==
  /\ cache' = getSurveyCount(cache, e).cache
  /\ UNCHANGED <<store, op, last, world, requests>>

ReadSurveysByActionClassId(a) ==
  /\ cache' = getSurveysByActionClassId(cache, a).cache
  /\ UNCHANGED <<store, op, last, world, requests>>

ReadSurveysBySegmentId(g) ==
  /\ cache' = getSurveysBySegmentId(cache, g).cache
  /\ UNCHANGED <<store, op, last, world, requests>>

ReadSyncSurveys(e, p, deviceType, version) ==
  /\ cache' = getSyncSurveys(cache, e, p, deviceType, version).cache
  /\ UNCHANGED <<store, op, last, world, requests>>

\* An entry reaches its revalidate interval (SERVICES_REVALIDATION_INTERVAL).
Expire(key) ==
  /\ key \in DOMAIN cache
  /\ cache' = [k \in DOMAIN cache \ {key} |-> cache[k]]
  /\ UNCHANGED <<store, op, last, world, requests>>

\* ------------------------------------------------------------ trigger diff
IdsOfNames(actionClasses, names) ==
  {getActionClassIdFromName(actionClasses, n) : n \in names}

revalidateSurveyByActionClassName(actionClasses, actionClassNames) ==
  UNION {surveyCacheRevalidate(<<>>, <<>>, <<a>>, <<>>) :
           a \in IdsOfNames(actionClasses, actionClassNames)}

\* Faulty variant: the triggers missing from the request are not removed.
processTriggerUpdates_NoRemoval(triggers, currentSurveyTriggers, actionClasses) ==
  LET newTriggers == {t \in triggers : t # "" /\ t \notin currentSurveyTriggers}
  IN  [ create |-> IdsOfNames(actionClasses, newTriggers),
        deleteMany |-> {},
        revalidated |-> revalidateSurveyByActionClassName(actionClasses, newTriggers) ]

\* create / deleteMany of the triggers update object, and the tags it revalidates.
processTriggerUpdates(triggers, currentSurveyTriggers, actionClasses) ==
  LET newTriggers == {t \in triggers : t # "" /\ t \notin currentSurveyTriggers}
      removedTriggers == {t \in currentSurveyTriggers : t \notin triggers}
  IN  [ create |-> IdsOfNames(actionClasses, newTriggers),
        deleteMany |-> IdsOfNames(actionClasses, removedTriggers),
        revalidated |->
          revalidateSurveyByActionClassName(actionClasses, newTriggers \cup removedTriggers) ]

SegmentIdOf(survey) == IF survey.segment = <<>> THEN <<>> ELSE <<survey.segment[1].id>>

RowSegments(id) == IF id \in DOMAIN surveys THEN {surveys[id].segmentId[i] : i \in DOMAIN surveys[id].segmentId} ELSE {}

\* ------------------------------------------------------------ updateSurvey
\* Faulty variant: a scheduled status without runOnDate is kept.
scheduleStatus_KeepScheduled(status, runOnDate, today) ==
  IF status \in {"completed", "paused", "inProgress"} /\ runOnDate # <<>> /\ runOnDate[1] > today
  THEN "scheduled"
  ELSE status

\* The status updateSurvey writes: "scheduled" without runOnDate becomes
\* "inProgress"; then a completed, paused or running survey whose runOnDate is
\* later than today (new Date()) becomes "scheduled".
scheduleStatus(status, runOnDate, today) ==
  LET unscheduled == IF status = "scheduled" /\ runOnDate = <<>> THEN "inProgress" ELSE status
  IN  IF unscheduled \in {"completed", "paused", "inProgress"}
         /\ runOnDate # <<>> /\ runOnDate[1] > today
      THEN "scheduled"
      ELSE unscheduled

\* Faulty variant: the languages missing from the request are not removed.
dataLanguages_NoRemoval(languages, currentLanguages) ==
  LET updatedLanguageIds == IF Cardinality(DOMAIN languages) > 1 THEN DOMAIN languages ELSE {}
      enabledLanguageIds == {i \in DOMAIN languages : languages[i].enabled}
      languagesToAdd == updatedLanguageIds \ DOMAIN currentLanguages
      flags(i) == [default |-> i \in DOMAIN languages /\ languages[i].default,
                   enabled |-> i \in enabledLanguageIds]
  IN  [ updateMany |-> [i \in DOMAIN currentLanguages |-> flags(i)],
        create     |-> [i \in languagesToAdd |-> flags(i)],
        deleteMany |-> {} ]

\* data.languages of updateSurvey. languages: the bindings of the request,
\* language id -> [default, enabled], of which at most one is the default;
\* currentLanguages: those of currentSurvey.
dataLanguages(languages, currentLanguages) ==
  LET currentLanguageIds == DOMAIN currentLanguages
      updatedLanguageIds == IF Cardinality(DOMAIN languages) > 1 THEN DOMAIN languages ELSE {}
      enabledLanguageIds == {i \in DOMAIN languages : languages[i].enabled}
      languagesToAdd == updatedLanguageIds \ currentLanguageIds
      languagesToRemove == currentLanguageIds \ updatedLanguageIds
      defaultLanguageId == {i \in DOMAIN languages : languages[i].default}
      flags(i) == [default |-> i \in defaultLanguageId, enabled |-> i \in enabledLanguageIds]
  IN  [ updateMany |-> [i \in currentLanguageIds |-> flags(i)],
        create     |-> [i \in languagesToAdd |-> flags(i)],
        deleteMany |-> {[languageId |-> i, enabled |-> i \in enabledLanguageIds] :
                          i \in languagesToRemove} ]

\* The nested write of data.languages on the stored bindings, in the order of
\* its keys: updateMany, create, deleteMany (by languageId and enabled).
writeLanguages(stored, data) ==
  LET updated == [i \in DOMAIN stored |->
                    IF i \in DOMAIN data.updateMany THEN data.updateMany[i] ELSE stored[i]]
      created == [i \in DOMAIN updated \cup DOMAIN data.create |->
                    IF i \in DOMAIN updated THEN updated[i] ELSE data.create[i]]
      deleted == {i \in DOMAIN created :
                    \E d \in data.deleteMany : d.languageId = i /\ d.enabled = created[i].enabled}
  IN  [i \in DOMAIN created \ deleted |-> created[i]]

\* Faulty variant: the segment is written before its filters are parsed.
UpdateSurveyStart_WriteFirst(id, surveyName, status, runOnDate, languages, triggers, segment) ==
  /\ Accept
  /\ LET r == getSurvey(cache, id) IN
     IF r.value = <<>>
     THEN /\ cache' = r.cache
          /\ op' = Idle
          /\ last' = Failed("updateSurvey", id)
          /\ UNCHANGED segments
     ELSE LET current == r.value[1]
              upd == processTriggerUpdates(triggers, current.triggers,
                                           getActionClasses(current.environmentId))
          IN  /\ segment # <<>> => current.segment # <<>>
              /\ cache' = invalidate(r.cache, upd.revalidated)
              /\ IF segment # <<>> /\ ~ValidFilters(segment[1])
                 THEN /\ op' = Idle /\ last' = Failed("updateSurvey", id)
                      /\ segments' = [segments EXCEPT ![current.segment[1].id].filters = segment[1]]
                 ELSE /\ op' = [Idle EXCEPT !.name = "updateSurvey",
                                   !.pc = IF segment # <<>> THEN "updateSegment" ELSE "write",
                                   !.id = id, !.environmentId = current.environmentId,
                                   !.surveyName = surveyName, !.status = status,
                                   !.runOnDate = runOnDate, !.languages = languages,
                                   !.triggers = triggers, !.segment = segment,
                                   !.current = <<current>>,
                                   !.revalidated = upd.revalidated]
                      /\ last' = NoLast
                      /\ UNCHANGED segments
  /\ UNCHANGED <<surveys, nextId, world>>

\* getSurvey(surveyId), the trigger diff with its revalidation, the filters check.
\* runOnDate: <<>> (null) or <<day>>; languages: <<>> (none in the request) or
\* <<the bindings of the request>>.
UpdateSurveyStart(id, surveyName, status, runOnDate, languages, triggers, segment) ==
  /\ Accept
  /\ LET r == getSurvey(cache, id) IN
     IF r.value = <<>>
     THEN /\ cache' = r.cache
          /\ op' = Idle
          /\ last' = Failed("updateSurvey", id)
     ELSE LET current == r.value[1]
              upd == processTriggerUpdates(triggers, current.triggers,
                                           getActionClasses(current.environmentId))
          IN  /\ segment # <<>> => current.segment # <<>>
              /\ cache' = invalidate(r.cache, upd.revalidated)
              /\ IF segment # <<>> /\ ~ValidFilters(segment[1])
                 THEN op' = Idle /\ last' = Failed("updateSurvey", id)
                 ELSE /\ op' = [Idle EXCEPT !.name = "updateSurvey",
                                   !.pc = IF segment # <<>> THEN "updateSegment" ELSE "write",
                                   !.id = id, !.environmentId = current.environmentId,
                                   !.surveyName = surveyName, !.status = status,
                                   !.runOnDate = runOnDate, !.languages = languages,
                                   !.triggers = triggers, !.segment = segment,
                                   !.current = <<current>>,
                                   !.revalidated = upd.revalidated]
                      /\ last' = NoLast
  /\ UNCHANGED <<store, world>>

\* updateSegment(segment.id, segment): the segment write and its own revalidation.
UpdateSurveySegment ==
  /\ op.name = "updateSurvey" /\ op.pc = "updateSegment"
  /\ UNCHANGED requests
  /\ LET g == op.current[1].segment[1].id IN
     IF g \in DOMAIN segments
     THEN /\ segments' = [segments EXCEPT ![g].filters = op.segment[1]]
          /\ cache' = invalidate(cache, segmentCacheRevalidate(<<g>>, <<segments[g].environmentId>>))
          /\ op' = [op EXCEPT !.pc = "write"]
          /\ UNCHANGED last
     ELSE /\ op' = Idle
          /\ last' = Failed("updateSurvey", op.id)
          /\ UNCHANGED <<segments, cache>>
  /\ UNCHANGED <<surveys, nextId, world>>

\* The status rules, then prisma.survey.update({where: {id}, data}).
UpdateSurveyWrite ==
  /\ op.name = "updateSurvey" /\ op.pc = "write"
  /\ UNCHANGED requests
  /\ IF /\ op.id \in DOMAIN surveys
        /\ op.languages # <<>> =>
             DOMAIN dataLanguages(op.languages[1], op.current[1].languages).create
               \cap DOMAIN surveys[op.id].languages = {}
     THEN LET upd == processTriggerUpdates(op.triggers, op.current[1].triggers,
                                           getActionClasses(op.environmentId))
              lang == IF op.languages = <<>> THEN surveys[op.id].languages
                      ELSE writeLanguages(surveys[op.id].languages,
                             dataLanguages(op.languages[1], op.current[1].languages))
          IN  /\ surveys' = [surveys EXCEPT
                   ![op.id].name = op.surveyName,
                   ![op.id].languages = lang,
                   ![op.id].status = scheduleStatus(op.status, op.runOnDate, now),
                   ![op.id].runOnDate = op.runOnDate,
                   ![op.id].triggers = (@ \ upd.deleteMany) \cup upd.create]
              /\ op' = [op EXCEPT !.pc = "revalidate", !.wrote = TRUE]
              /\ UNCHANGED last
     ELSE /\ op' = Idle
          /\ last' = Failed("updateSurvey", op.id)
          /\ UNCHANGED surveys
  /\ UNCHANGED <<segments, nextId, cache, world>>

\* surveyCache.revalidate({id, environmentId, segmentId}) and return.
UpdateSurveyRevalidate ==
  /\ op.name = "updateSurvey" /\ op.pc = "revalidate"
  /\ UNCHANGED requests
  /\ LET row == surveys[op.id]
         upd == processTriggerUpdates(op.triggers, op.current[1].triggers,
                                      getActionClasses(op.environmentId))
         tags == surveyCacheRevalidate(<<op.id>>, <<row.environmentId>>, <<>>,
                                       SegmentIdOf(selectSurvey(op.id)))
     IN  /\ cache' = invalidate(cache, tags)
         /\ last' = Returned("updateSurvey", op.id, row.environmentId,
                             row.triggers \cup upd.deleteMany,
                             upd.create \cup upd.deleteMany, RowSegments(op.id), tags)
  /\ op' = Idle
  /\ UNCHANGED <<store, world>>

\* ------------------------------------------------------------ createSurvey
\* triggers is <<>> (no triggers in the body) or <<names>>.
CreateSurveyStart(environmentId, surveyName, status, triggers, inlineTriggers) ==
  /\ Accept
  /\ nextId <= MaxSurveys
  /\ IF triggers # <<>> /\ inlineTriggers
     THEN /\ op' = Idle
          /\ last' = Failed("createSurvey", 0)
          /\ UNCHANGED cache
     ELSE LET tags == IF triggers = <<>> THEN {}
                      ELSE revalidateSurveyByActionClassName(
                             getActionClasses(environmentId), triggers[1])
          IN  /\ cache' = invalidate(cache, tags)
              /\ op' = [Idle EXCEPT !.name = "createSurvey",
                           !.pc = IF triggers # <<>> THEN "processTriggers" ELSE "write",
                           !.environmentId = environmentId, !.surveyName = surveyName,
                           !.status = status,
                           !.triggers = IF triggers = <<>> THEN {} ELSE triggers[1],
                           !.revalidated = tags]
              /\ last' = NoLast
  /\ UNCHANGED <<store, world>>

\* processTriggerUpdates(surveyBody.triggers, [], await getActionClasses(environmentId))
CreateSurveyProcessTriggers ==
  /\ op.name = "createSurvey" /\ op.pc = "processTriggers"
  /\ UNCHANGED requests
  /\ LET upd == processTriggerUpdates(op.triggers, {}, getActionClasses(op.environmentId))
     IN  /\ cache' = invalidate(cache, upd.revalidated)
         /\ op' = [op EXCEPT !.pc = "write", !.revalidated = @ \cup upd.revalidated]
  /\ UNCHANGED <<store, last, world>>

\* prisma.survey.create
CreateSurveyWrite ==
  /\ op.name = "createSurvey" /\ op.pc = "write"
  /\ UNCHANGED requests
  /\ LET upd == processTriggerUpdates(op.triggers, {}, getActionClasses(op.environmentId))
     IN  surveys' = surveys @@
           (nextId :> SurveyRow(op.environmentId, op.surveyName, op.status, upd.create, <<>>))
  /\ nextId' = nextId + 1
  /\ op' = [op EXCEPT !.pc = "revalidate", !.id = nextId, !.wrote = TRUE]
  /\ UNCHANGED <<segments, cache, last, world>>

\* Faulty variant: createSurvey revalidating the survey id only.
CreateSurveyRevalidate_IdOnly ==
  /\ op.name = "createSurvey" /\ op.pc = "revalidate"
  /\ UNCHANGED requests
  /\ LET tags == surveyCacheRevalidate(<<op.id>>, <<>>, <<>>, <<>>)
         ids == IdsOfNames(getActionClasses(op.environmentId), op.triggers)
     IN  /\ cache' = invalidate(cache, tags)
         /\ last' = Returned("createSurvey", op.id, op.environmentId, ids, ids, {}, tags)
  /\ op' = Idle
  /\ UNCHANGED <<store, world>>

\* after subscribeTeamMembersToSurveyResponses: surveyCache.revalidate({id, environmentId})
CreateSurveyRevalidate ==
  /\ op.name = "createSurvey" /\ op.pc = "revalidate"
  /\ UNCHANGED requests
  /\ LET tags == surveyCacheRevalidate(<<op.id>>, <<op.environmentId>>, <<>>, <<>>)
         ids == IdsOfNames(getActionClasses(op.environmentId), op.triggers)
     IN  /\ cache' = invalidate(cache, tags)
         /\ last' = Returned("createSurvey", op.id, op.environmentId, ids, ids, {}, tags)
  /\ op' = Idle
  /\ UNCHANGED <<store, world>>

\* ------------------------------------------------------------ deleteSurvey
\* prisma.survey.delete({where: {id}, select: selectSurvey})
DeleteSurveyWrite(id) ==
  /\ Accept
  /\ IF id \in DOMAIN surveys
     THEN /\ surveys' = [i \in DOMAIN surveys \ {id} |-> surveys[i]]
          /\ op' = [Idle EXCEPT !.name = "deleteSurvey", !.pc = "revalidate", !.id = id,
                       !.environmentId = surveys[id].environmentId,
                       !.current = <<selectSurvey(id)>>, !.wrote = TRUE]
          /\ last' = NoLast
     ELSE /\ op' = Idle
          /\ last' = Failed("deleteSurvey", id)
          /\ UNCHANGED surveys
  /\ UNCHANGED <<segments, nextId, cache, world>>

\* Faulty variant: deleteSurvey without the revalidation of its triggers' action classes.
DeleteSurveyRevalidate_NoTriggers ==
  /\ op.name = "deleteSurvey" /\ op.pc = "revalidate"
  /\ UNCHANGED requests
  /\ LET deletedSurvey == op.current[1]
         acs == getActionClasses(deletedSurvey.environmentId)
         tags ==
                surveyCacheRevalidate(<<deletedSurvey.id>>, <<deletedSurvey.environmentId>>,
                                      <<>>, <<>>)
           \cup (IF deletedSurvey.segment # <<>>
                 THEN segmentCacheRevalidate(<<deletedSurvey.segment[1].id>>,
                                             <<deletedSurvey.environmentId>>)
                 ELSE {})
     IN  /\ cache' = invalidate(cache, tags)
         /\ last' = Returned("deleteSurvey", deletedSurvey.id, deletedSurvey.environmentId,
                             IdsOfNames(acs, deletedSurvey.triggers),
                             IdsOfNames(acs, deletedSurvey.triggers),
                             {deletedSurvey.segment[i].id : i \in DOMAIN deletedSurvey.segment},
                             tags)
  /\ op' = Idle
  /\ UNCHANGED <<store, world>>

\* The revalidations of deleteSurvey (the response cache holds no survey read).
DeleteSurveyRevalidate ==
  /\ op.name = "deleteSurvey" /\ op.pc = "revalidate"
  /\ UNCHANGED requests
  /\ LET deletedSurvey == op.current[1]
         acs == getActionClasses(deletedSurvey.environmentId)
         tags ==
                surveyCacheRevalidate(<<deletedSurvey.id>>, <<deletedSurvey.environmentId>>,
                                      <<>>, <<>>)
           \cup (IF deletedSurvey.segment # <<>>
                 THEN segmentCacheRevalidate(<<deletedSurvey.segment[1].id>>,
                                             <<deletedSurvey.environmentId>>)
                 ELSE {})
           \cup UNION {surveyCacheRevalidate(<<>>, <<>>, <<a>>, <<>>) :
                         a \in IdsOfNames(acs, deletedSurvey.triggers)}
     IN  /\ cache' = invalidate(cache, tags)
         /\ last' = Returned("deleteSurvey", deletedSurvey.id, deletedSurvey.environmentId,
                             IdsOfNames(acs, deletedSurvey.triggers),
                             IdsOfNames(acs, deletedSurvey.triggers),
                             {deletedSurvey.segment[i].id : i \in DOMAIN deletedSurvey.segment},
                             tags)
  /\ op' = Idle
  /\ UNCHANGED <<store, world>>

\* --------------------------------------------------------- duplicateSurvey
DuplicateSurveyStart(environmentId, surveyId) ==
  /\ Accept
  /\ nextId <= MaxSurveys
  /\ LET r == getSurvey(cache, surveyId) IN
     /\ cache' = r.cache
     /\ IF r.value = <<>>
        THEN op' = Idle /\ last' = Failed("duplicateSurvey", surveyId)
        ELSE /\ op' = [Idle EXCEPT !.name = "duplicateSurvey", !.pc = "create",
                          !.environmentId = environmentId, !.current = r.value]
             /\ last' = NoLast
  /\ UNCHANGED <<store, world>>

\* prisma.survey.create of the copy: status draft, the triggers rebound, the
\* languages bound anew with their default flag (enabled by default), no segment yet.
DuplicateSurveyCreate ==
  /\ op.name = "duplicateSurvey" /\ op.pc = "create"
  /\ UNCHANGED requests
  /\ LET existingSurvey == op.current[1]
         acs == getActionClasses(op.environmentId)
     IN  surveys' = surveys @@
           (nextId :> [SurveyRow(op.environmentId, Append(existingSurvey.name, "(copy)"),
                                 "draft", IdsOfNames(acs, existingSurvey.triggers), <<>>)
                       EXCEPT !.type = existingSurvey.type,
                              !.languages =
                                [l \in DOMAIN existingSurvey.languages |->
                                   [default |-> existingSurvey.languages[l].default,
                                    enabled |-> TRUE]],
                              !.displayOption = existingSurvey.displayOption,
                              !.recontactDays = existingSurvey.recontactDays])
  /\ nextId' = nextId + 1
  /\ op' = [op EXCEPT !.pc = IF op.current[1].segment # <<>> THEN "segment" ELSE "revalidate",
                      !.id = nextId, !.wrote = TRUE]
  /\ UNCHANGED <<segments, cache, last, world>>

\* A private segment is copied into a new private segment of the copy; a shared one
\* is connected to the copy. Then segmentCache.revalidate({id, environmentId}).
DuplicateSurveySegment ==
  /\ op.name = "duplicateSurvey" /\ op.pc = "segment"
  /\ UNCHANGED requests
  /\ LET existing == op.current[1].segment[1]
         g == IF existing.isPrivate THEN op.id ELSE existing.id
     IN  /\ segments' = IF existing.isPrivate
                        THEN segments @@ (g :> SegmentRow(op.environmentId, TRUE, op.id,
                                                          existing.filters))
                        ELSE segments
         /\ surveys' = [surveys EXCEPT ![op.id].segmentId = <<g>>]
         /\ cache' = invalidate(cache, segmentCacheRevalidate(<<g>>, <<op.environmentId>>))
         /\ op' = [op EXCEPT !.pc = "revalidate", !.newSegmentId = g]
  /\ UNCHANGED <<nextId, last, world>>

\* surveyCache.revalidate({id, environmentId}) and the triggers' action classes.
DuplicateSurveyRevalidate ==
  /\ op.name = "duplicateSurvey" /\ op.pc = "revalidate"
  /\ UNCHANGED requests
  /\ LET acs == getActionClasses(op.environmentId)
         names == op.current[1].triggers
         tags == surveyCacheRevalidate(<<op.id>>, <<op.environmentId>>, <<>>, <<>>)
                 \cup revalidateSurveyByActionClassName(acs, names)
     IN  /\ cache' = invalidate(cache, tags)
         /\ last' = Returned("duplicateSurvey", op.id, op.environmentId,
                             IdsOfNames(acs, names), IdsOfNames(acs, names),
                             RowSegments(op.id), tags)
  /\ op' = Idle
  /\ UNCHANGED <<store, world>>

\* -------------------------------------------------- loadNewSegmentInSurvey
getSegment(g) == IF g \in DOMAIN segments THEN <<segments[g]>> ELSE <<>>

LoadNewSegmentStart(surveyId, newSegmentId) ==
  /\ Accept
  /\ LET r == getSurvey(cache, surveyId) IN
     /\ cache' = r.cache
     /\ IF r.value = <<>> \/ getSegment(newSegmentId) = <<>>
        THEN op' = Idle /\ last' = Failed("loadNewSegmentInSurvey", surveyId)
        ELSE /\ op' = [Idle EXCEPT !.name = "loadNewSegmentInSurvey", !.pc = "write",
                          !.id = surveyId, !.newSegmentId = newSegmentId,
                          !.environmentId = r.value[1].environmentId,
                          !.current = r.value]
             /\ last' = NoLast
  /\ UNCHANGED <<store, world>>

\* prisma.survey.update({data: {segment: {connect: {id: newSegmentId}}}})
LoadNewSegmentWrite ==
  /\ op.name = "loadNewSegmentInSurvey" /\ op.pc = "write"
  /\ UNCHANGED requests
  /\ IF op.id \in DOMAIN surveys /\ op.newSegmentId \in DOMAIN segments
     THEN /\ surveys' = [surveys EXCEPT ![op.id].segmentId = <<op.newSegmentId>>]
          /\ op' = [op EXCEPT !.pc = "revalidate", !.wrote = TRUE,
                              !.segment = surveys[op.id].segmentId]
          /\ UNCHANGED last
     ELSE /\ op' = Idle
          /\ last' = Failed("loadNewSegmentInSurvey", op.id)
          /\ UNCHANGED surveys
  /\ UNCHANGED <<segments, nextId, cache, world>>

\* segmentCache.revalidate({id: newSegmentId}); surveyCache.revalidate({id: surveyId})
LoadNewSegmentRevalidate ==
  /\ op.name = "loadNewSegmentInSurvey" /\ op.pc = "revalidate"
  /\ UNCHANGED requests
  /\ LET tags == segmentCacheRevalidate(<<op.newSegmentId>>, <<>>)
                 \cup surveyCacheRevalidate(<<op.id>>, <<>>, <<>>, <<>>)
     IN  /\ cache' = invalidate(cache, tags)
         /\ last' = Returned("loadNewSegmentInSurvey", op.id, op.environmentId, {}, {},
                             {op.newSegmentId} \cup {op.segment[i] : i \in DOMAIN op.segment},
                             tags)
  /\ op' = Idle
  /\ UNCHANGED <<store, world>>

\* ------------------------------------------------------------ specification
NameInputs == {<<"n1">>}
StatusInputs == {"inProgress"}
NoRunOnDate == <<>>
NoLanguages == <<>>
SegmentInputs == {<<>>, <<PhoneOnly>>, <<Malformed>>}
TriggerInputs == SUBSET TriggerNames
Limits == {0, 1}
DeviceTypes == {"phone", "desktop"}
Versions == {"", "1.7.0"}

CacheKeys ==
       {getSurveyKey(i) : i \in SurveyIds}
  \cup {getSurveysKey(e, l) : e \in Environments, l \in Limits}
  \cup {getSurveyCountKey(e) : e \in Environments}
  \cup {getSurveysByActionClassIdKey(a) : a \in ActionClassIds}
  \cup {getSurveysBySegmentIdKey(g) : g \in SegmentIds}
  \cup {getSyncSurveysKey(e, p) : e \in Environments, p \in Persons}

Read ==
  \/ \E i \in SurveyIds : ReadSurvey(i)
  \/ \E e \in Environments, l \in Limits : ReadSurveys(e, l)
  \/ \E e \in Environments : ReadSurveyCount(e)
  \/ \E a \in ActionClassIds : ReadSurveysByActionClassId(a)
  \/ \E g \in SegmentIds : ReadSurveysBySegmentId(g)
  \/ \E e \in Environments, p \in PersonInputs : ReadSyncSurveys(e, p, "desktop", "1.7.0")
  \/ \E k \in CacheKeys : Expire(k)

UpdateSurvey ==
  \/ \E i \in SurveyIds, n \in NameInputs, st \in StatusInputs, t \in TriggerInputs,
        g \in SegmentInputs : UpdateSurveyStart(i, n, st, NoRunOnDate, NoLanguages, t, g)
  \/ UpdateSurveySegment
  \/ UpdateSurveyWrite
  \/ UpdateSurveyRevalidate

CreateSurvey ==
  \/ \E e \in Environments, n \in NameInputs, st \in StatusInputs,
        t \in {<<>>} \cup {<<x>> : x \in TriggerInputs}, it \in BOOLEAN :
        CreateSurveyStart(e, n, st, t, it)
  \/ CreateSurveyProcessTriggers
  \/ CreateSurveyWrite
  \/ CreateSurveyRevalidate

DeleteSurvey ==
  \/ \E i \in SurveyIds : DeleteSurveyWrite(i)
  \/ DeleteSurveyRevalidate

DuplicateSurvey ==
  \/ \E e \in Environments, i \in SurveyIds : DuplicateSurveyStart(e, i)
  \/ DuplicateSurveyCreate
  \/ DuplicateSurveySegment
  \/ DuplicateSurveyRevalidate

LoadNewSegmentInSurvey ==
  \/ \E i \in SurveyIds, g \in SegmentIds : LoadNewSegmentStart(i, g)
  \/ LoadNewSegmentWrite
  \/ LoadNewSegmentRevalidate

Next ==
  \/ Read
  \/ UpdateSurvey
  \/ CreateSurvey
  \/ DeleteSurvey
  \/ DuplicateSurvey
  \/ LoadNewSegmentInSurvey

Spec == Init /\ [][Next]_vars

\* --------------------------------------- the inputs of the eligibility pipeline
\* The services of the entities getSyncSurveys reads: each writes its entity and
\* then revalidates the tags of its own cache.
ActedOnce == <<ActionLeaf(1)>>
FilterInputs == {<<>>, PhoneOnly, ActedOnce}
PlanInputs == {"pro", "free"}
RecontactInputs == {<<>>, <<7>>}

\* updateSegment: segmentCache.revalidate({id, environmentId}).
UpdateSegment(g, filters) ==
  /\ g \in DOMAIN segments
  /\ segments[g].filters # filters
  /\ segments' = [segments EXCEPT ![g].filters = filters]
  /\ cache' = invalidate(cache, segmentCacheRevalidate(<<g>>, <<segments[g].environmentId>>))
  /\ UNCHANGED <<surveys, nextId, op, last, world, requests>>

\* createAction: actionCache.revalidate({personId}).
CreateAction(p, a) ==
  /\ p \in DOMAIN actions
  /\ a \notin actions[p]
  /\ actions' = [actions EXCEPT ![p] = @ \cup {a}]
  /\ cache' = invalidate(cache, {actionTagByPersonId(p)})
  /\ UNCHANGED <<store, op, last, people, displays, products, now, requests, responses>>

\* updatePersonAttribute: personCache.revalidate({id, environmentId}).
UpdatePerson(p, plan) ==
  /\ p \in DOMAIN people
  /\ people[p].attributes["plan"] # plan
  /\ people' = [people EXCEPT ![p].attributes = [a \in {"plan"} |-> plan]]
  /\ cache' = invalidate(cache, {personTagById(p),
                                  personTagByEnvironmentId(people[p].environmentId)})
  /\ UNCHANGED <<store, op, last, displays, actions, products, now, requests, responses>>

\* createDisplay: displayCache.revalidate({personId}).
CreateDisplay(p, surveyId) ==
  /\ p \in DOMAIN displays
  /\ surveyId \in DOMAIN surveys
  /\ Len(displays[p]) < MaxDisplays
  /\ displays' = [displays EXCEPT
                    ![p] = <<[surveyId |-> surveyId, responseId |-> <<>>,
                              createdAt |-> now]>> \o @]
  /\ cache' = invalidate(cache, {displayTagByPersonId(p)})
  /\ UNCHANGED <<store, op, last, people, actions, products, now, requests, responses>>

\* updateProduct: productCache.revalidate({environmentId}).
UpdateProduct(e, recontactDays) ==
  /\ e \in DOMAIN products
  /\ products[e].recontactDays # recontactDays
  /\ products' = [products EXCEPT ![e].recontactDays = recontactDays]
  /\ cache' = invalidate(cache, {productTagByEnvironmentId(e)})
  /\ UNCHANGED <<store, op, last, people, displays, actions, now, requests, responses>>

\* Two running web surveys: the first with its private segment, the second shown
\* once per person and without a segment.
InitSync ==
  /\ surveys = (1 :> SurveyRow(1, <<"n0">>, "inProgress", {1}, <<1>>))
            @@ (2 :> [SurveyRow(1, <<"n1">>, "inProgress", {}, <<>>)
                        EXCEPT !.displayOption = "displayOnce"])
  /\ segments = (0 :> SegmentRow(1, FALSE, 0, PlanPro)) @@ (1 :> SegmentRow(1, TRUE, 1, <<>>))
  /\ nextId = 3
  /\ people = (1 :> [environmentId |-> 1, attributes |-> [a \in {"plan"} |-> "pro"]])
  /\ displays = (1 :> <<>>)
  /\ actions = (1 :> {})
  /\ products = (1 :> [recontactDays |-> <<>>])
  /\ now = 10
  /\ responses = <<>>
  /\ cache = <<>>
  /\ op = Idle
  /\ last = NoLast
  /\ requests = 0

NextSync ==
  \/ \E e \in Environments, p \in Persons, d \in DeviceTypes, v \in Versions :
        ReadSyncSurveys(e, p, d, v)
  \/ \E e \in Environments : ReadSurveys(e, 0)
  \/ \E k \in CacheKeys : Expire(k)
  \/ \E g \in SegmentIds, f \in FilterInputs : UpdateSegment(g, f)
  \/ \E p \in Persons, a \in ActionClassIds : CreateAction(p, a)
  \/ \E p \in Persons, plan \in PlanInputs : UpdatePerson(p, plan)
  \/ \E p \in Persons, i \in SurveyIds : CreateDisplay(p, i)
  \/ \E e \in Environments, r \in RecontactInputs : UpdateProduct(e, r)

SpecSync == InitSync /\ [][NextSync]_vars

\* ------------------------------------ eligibility requests over a given store
\* getSyncSurveys called for a store holding survey 1 in one of the scenarios
\* below and survey 2, a running web survey without segment.
DisplayOptionInputs == {"respondMultiple", "displayOnce", "displayMultiple", "displaySome"}
StageOneStatuses == {"inProgress", "paused", "completed"}
SurveyTypes == {"web", "link"}
SurveyRecontactInputs == {<<>>, <<2>>}
ProductRecontactInputs == {<<>>, <<1>>}
Ages == 0..2

Both(plan, tier) == [a \in {"plan", "tier"} |-> IF a = "plan" THEN plan ELSE tier]
AttributeInputs ==
  { Both("pro", "gold"), Both("pro", ""), Both("free", "gold"), Both("", "gold"),
    [a \in {"tier"} |-> "gold"] }

PlanNotFree == <<AttributeLeaf("plan", "notEquals", "free")>>
PlanAndTier ==
  <<Connective("and", <<AttributeLeaf("plan", "equals", "pro"),
                        AttributeLeaf("tier", "equals", "gold")>>)>>
PlanOrTier ==
  <<Connective("or", <<AttributeLeaf("plan", "equals", "pro"),
                       AttributeLeaf("tier", "equals", "gold")>>)>>
PlanContains == <<AttributeLeaf("plan", "contains", "pro")>>
SegmentFilterInputs ==
  {<<>>, PlanPro, PlanNotFree, PlanAndTier, PlanContains, PlanOrTier, PhoneOnly}

\* A display of the history: createdAt is age days before the request.
HistoryDisplay(surveyId, responded, age) ==
  [surveyId |-> surveyId, responseId |-> IF responded THEN <<1>> ELSE <<>>,
   createdAt |-> 10 - age]

SeqsUpTo(S, n) == UNION {[1..k -> S] : k \in 0..n}

\* getDisplaysByPersonId lists the latest display first.
LatestFirst(h) == \A i \in 1..(Len(h) - 1) : h[i].createdAt >= h[i + 1].createdAt

ResponseHistories ==
  SeqsUpTo({HistoryDisplay(i, r, 0) : i \in {1, 2}, r \in BOOLEAN}, MaxHistory)
AgeHistories ==
  {h \in SeqsUpTo({HistoryDisplay(i, FALSE, g) : i \in {1, 2}, g \in Ages}, MaxHistory) :
     LatestFirst(h)}

DefaultScenario ==
  [ status |-> "inProgress", type |-> "web", displayOption |-> "respondMultiple",
    recontactDays |-> <<>>, productRecontactDays |-> <<>>, segment |-> <<>>,
    attributes |-> Both("pro", "gold"), history |-> <<>> ]
StageOneScenarios ==
  {[DefaultScenario EXCEPT !.status = st, !.type = t] :
     st \in StageOneStatuses, t \in SurveyTypes}
DisplayScenarios ==
  {[DefaultScenario EXCEPT !.displayOption = o, !.history = h] :
     o \in DisplayOptionInputs, h \in ResponseHistories}
RecontactScenarios ==
  {[DefaultScenario EXCEPT !.recontactDays = r, !.productRecontactDays = pr, !.history = h] :
     r \in SurveyRecontactInputs, pr \in ProductRecontactInputs, h \in AgeHistories}
SegmentScenarios ==
  {[DefaultScenario EXCEPT !.segment = <<f>>, !.attributes = a] :
     f \in SegmentFilterInputs, a \in AttributeInputs}
Scenarios ==
  StageOneScenarios \cup DisplayScenarios \cup RecontactScenarios \cup SegmentScenarios

InitEligibility ==
  \E sc \in Scenarios :
    /\ surveys =
            (1 :> [SurveyRow(1, <<"n0">>, sc.status, {},
                             IF sc.segment = <<>> THEN <<>> ELSE <<1>>)
                     EXCEPT !.type = sc.type, !.displayOption = sc.displayOption,
                            !.recontactDays = sc.recontactDays])
         @@ (2 :> SurveyRow(1, <<"n1">>, "inProgress", {}, <<>>))
    /\ segments =
         IF sc.segment = <<>> THEN <<>> ELSE (1 :> SegmentRow(1, TRUE, 1, sc.segment[1]))
    /\ nextId = 3
    /\ people = (1 :> [environmentId |-> 1, attributes |-> sc.attributes])
    /\ displays = (1 :> sc.history)
    /\ actions = (1 :> {})
    /\ products = (1 :> [recontactDays |-> sc.productRecontactDays])
    /\ now = 10
    /\ responses = <<>>
    /\ cache = <<>>
    /\ op = Idle
    /\ last = NoLast
    /\ requests = 0

\* The outcome of a getSyncSurveys call as its caller sees it.
SyncOutcome(r, e, p, deviceType, version, faults) ==
  [ name |-> "getSyncSurveys", ok |-> r.error = "", hit |-> r.hit, error |-> r.error,
    value |-> r.value, environmentId |-> e, personId |-> p, deviceType |-> deviceType,
    version |-> version, faults |-> faults ]

FaultInputs == {{}, {1}}

SyncRequest(e, p, deviceType, version, faults) ==
  LET r == getSyncSurveysWith(cache, e, p, deviceType, version, faults) IN
  /\ cache' = r.cache
  /\ last' = SyncOutcome(r, e, p, deviceType, version, faults)
  /\ UNCHANGED <<store, op, world, requests>>

NextEligibility ==
  \/ \E e \in Environments, p \in Persons, d \in DeviceTypes, v \in Versions,
        f \in FaultInputs : SyncRequest(e, p, d, v, f)
  \/ \E k \in CacheKeys : Expire(k)

SpecEligibility == InitEligibility /\ [][NextEligibility]_vars

\* ------------------------------------------------------- what a read returns
\* A read against the current cache returns what it would compute from the store.
EmptyCache == <<>>
Ids(value) == {value[i].id : i \in DOMAIN value}
Returned_getSurvey(id) == getSurvey(cache, id).value
Returned_getSurveys(e, l) == getSurveys(cache, e, l).value
Returned_getSurveyCount(e) == getSurveyCount(cache, e).value
Returned_getSurveysByActionClassId(a) == getSurveysByActionClassId(cache, a).value
Returned_getSurveysBySegmentId(g) == getSurveysBySegmentId(cache, g).value
Returned_getSyncSurveys(e, p) == getSyncSurveys(cache, e, p, "desktop", "1.7.0").value

SurveyFresh(id) == Returned_getSurvey(id) = getSurvey(EmptyCache, id).value
SurveysFresh(e) ==
  \A l \in Limits : Returned_getSurveys(e, l) = getSurveys(EmptyCache, e, l).value
ByActionClassFresh(a) ==
  Returned_getSurveysByActionClassId(a) = getSurveysByActionClassId(EmptyCache, a).value
BySegmentFresh(g) ==
  FormatAll(Returned_getSurveysBySegmentId(g))
    = FormatAll(getSurveysBySegmentId(EmptyCache, g).value)
SyncFresh(e) ==
  \A p \in Persons :
    Returned_getSyncSurveys(e, p) = getSyncSurveys(EmptyCache, e, p, "desktop", "1.7.0").value

ReturnedOk(name) == op = Idle /\ last.name = name /\ last.ok

\* C1: after updateSurvey(s) has returned, getSurvey(s.id), getSurveys of its
\* environment, getSurveysByActionClassId of every action class that was or is a
\* trigger of s, getSurveysBySegmentId of its segment and getSyncSurveys of its
\* environment all return the data now in the store.
C1_UpdateSurveyReadAfterWrite ==
  ReturnedOk("updateSurvey") =>
    /\ SurveyFresh(last.id)
    /\ SurveysFresh(last.environmentId)
    /\ \A a \in last.triggers : ByActionClassFresh(a)
    /\ \A g \in last.segments : BySegmentFresh(g)
    /\ SyncFresh(last.environmentId)

\* C2: while createSurvey or updateSurvey has not yet done its prisma survey write,
\* it has passed no tag to surveyCache.revalidate.
C2_RevalidateAfterWrite ==
  (op.name \in {"createSurvey", "updateSurvey"} /\ ~op.wrote) => op.revalidated = {}

\* C3: after a createSurvey or updateSurvey that added or removed trigger a has
\* returned, getSurveysByActionClassId(a) returns the surveys now bound to a,
\* whatever reads ran while the request was in flight.
C3_TriggerChangeReadAfterWrite ==
  (ReturnedOk("createSurvey") \/ ReturnedOk("updateSurvey")) =>
    \A a \in last.changed : ByActionClassFresh(a)

\* C4: every cached getSyncSurveys entry is the eligibility result of the store
\* as it is now, for the arguments it was computed with: after a segment, the
\* person, the person's actions or displays, or the product has changed and its
\* own tags were invalidated, no stale entry is left.
C4_SyncEntryNeverStale ==
  \A e \in Environments, p \in Persons :
    LET key == getSyncSurveysKey(e, p) IN
    key \in DOMAIN cache =>
      cache[key].value
        = Serialize(getSyncSurveys(EmptyCache, e, p, cache[key].deviceType,
                                   cache[key].version).value)

\* C5: getSyncSurveys(environmentId, personId, deviceType, version) returns the
\* result of its own four inputs: whenever the cached entry is the current result
\* for the arguments it was computed with, a call with any device type and any
\* version still gets what the pipeline computes for that device type and version.
C5_SyncResultForOwnInputs ==
  \A e \in Environments, p \in Persons :
    LET key == getSyncSurveysKey(e, p) IN
    (/\ key \in DOMAIN cache
     /\ cache[key].value
          = Serialize(getSyncSurveys(EmptyCache, e, p, cache[key].deviceType,
                                     cache[key].version).value))
    => \A d \in DeviceTypes, v \in Versions :
         getSyncSurveys(cache, e, p, d, v).value
           = getSyncSurveys(EmptyCache, e, p, d, v).value

\* C6: after loadNewSegmentInSurvey(surveyId, newSegmentId) has returned,
\* getSurvey(surveyId), getSurveys and getSyncSurveys of its environment, and
\* getSurveysBySegmentId of the new and of the previous segment return the data
\* now in the store.
C6_LoadNewSegmentReadAfterWrite ==
  ReturnedOk("loadNewSegmentInSurvey") =>
    /\ SurveyFresh(last.id)
    /\ SurveysFresh(last.environmentId)
    /\ SyncFresh(last.environmentId)
    /\ \A g \in last.segments : BySegmentFresh(g)

\* C7: after deleteSurvey(id) has returned, getSurvey(id) returns null, the survey
\* is in no getSurveys or getSyncSurveys result of its environment, getSurveyCount
\* is the stored count, and the survey is in no getSurveysByActionClassId result of
\* its triggers nor in the getSurveysBySegmentId result of its segment.
C7_DeleteSurveyReadAfterWrite ==
  ReturnedOk("deleteSurvey") =>
    /\ Returned_getSurvey(last.id) = <<>>
    /\ \A l \in Limits : last.id \notin Ids(Returned_getSurveys(last.environmentId, l))
    /\ Returned_getSurveyCount(last.environmentId)
         = <<getSurveyCountCallback(last.environmentId)>>
    /\ \A p \in Persons : last.id \notin Ids(Returned_getSyncSurveys(last.environmentId, p))
    /\ \A a \in last.triggers : last.id \notin Ids(Returned_getSurveysByActionClassId(a))
    /\ \A g \in last.segments : last.id \notin Ids(Returned_getSurveysBySegmentId(g))

\* Witness of C7: deleteSurvey has returned and its revalidation removed entries.
C7_Witness ==
  /\ ReturnedOk("deleteSurvey")
  /\ last.dropped
  /\ last.triggers # {}
  /\ last.segments # {}

StoredIds(e) == {i \in DOMAIN surveys : surveys[i].environmentId = e}

C9_RevalidationStep ==
  (op.pc = "revalidate" /\ op' = Idle) =>
    /\ \A k \in DOMAIN cache :
         IF cache[k].tags \cap last'.tags # {}
         THEN k \notin DOMAIN cache'
         ELSE k \in DOMAIN cache' /\ cache'[k] = cache[k]
    /\ DOMAIN cache' \subseteq DOMAIN cache
    /\ \A e \in Environments :
         surveyTagByEnvironmentId(e) \in last'.tags =>
           /\ \A l \in Limits : getSurveysKey(e, l) \notin DOMAIN cache'
           /\ getSurveyCountKey(e) \notin DOMAIN cache'
           /\ \A p \in Persons : getSyncSurveysKey(e, p) \notin DOMAIN cache'

C9_InvalidateExactly == [][C9_RevalidationStep]_vars

\* Witness of C9: a request has returned whose revalidation carried
\* byEnvironmentId(e) and removed an entry, and an entry with other tags is cached.
C9_Witness ==
  /\ op = Idle /\ last.ok /\ last.dropped
  /\ surveyTagByEnvironmentId(last.environmentId) \in last.tags
  /\ \E k \in DOMAIN cache : cache[k].tags \cap last.tags = {}

DatesAreDates(value) == \A i \in DOMAIN value : value[i].dates = "date"

\* C10: every cached survey read returns its date fields as dates, on a hit as on
\* the miss that stored the entry.
C10_DatesOnHit ==
  /\ \A i \in SurveyIds : DatesAreDates(Returned_getSurvey(i))
  /\ \A e \in Environments, l \in Limits : DatesAreDates(Returned_getSurveys(e, l))
  /\ \A a \in ActionClassIds : DatesAreDates(Returned_getSurveysByActionClassId(a))
  /\ \A e \in Environments, p \in Persons : DatesAreDates(Returned_getSyncSurveys(e, p))
  /\ \A g \in SegmentIds : DatesAreDates(Returned_getSurveysBySegmentId(g))

\* C11: the cache holds no not-found and no failure outcome: no getSurvey entry holds
\* null, and no getSyncSurveys entry exists for a product or person that is not found.
C11_NoFailureCached ==
  /\ \A i \in SurveyIds :
       getSurveyKey(i) \in DOMAIN cache => cache[getSurveyKey(i)].value # <<>>
  /\ \A e \in Environments, p \in PersonInputs :
       (e \notin DOMAIN products \/ getPerson(p) = <<>>)
         => getSyncSurveysKey(e, p) \notin DOMAIN cache

\* ------------------------------------------- the outcome of an eligibility request
SyncReturned == last.name = "getSyncSurveys"
Range(seq) == {seq[i] : i \in DOMAIN seq}
\* The surveys of the request's environment as the store holds them.
Stored == Range(getSurveysCallback(last.environmentId, 0).value)
Candidates == {s \in Stored : s.status = "inProgress" /\ s.type = "web"}
History == getDisplaysByPersonId(last.personId)
IsReturned(s) == s.id \in Ids(last.value)
KnownDisplayOption(s) ==
  s.displayOption \in {"respondMultiple", "displayOnce", "displayMultiple"}

DisplayRule(s) ==
  \/ s.displayOption = "respondMultiple"
  \/ /\ s.displayOption = "displayOnce"
     /\ ~\E i \in DOMAIN History : History[i].surveyId = s.id
  \/ /\ s.displayOption = "displayMultiple"
     /\ ~\E i \in DOMAIN History :
           History[i].surveyId = s.id /\ History[i].responseId # <<>>

\* Days since the most recent display among those chosen are >= days.
AllAtLeast(chosen, days) == \A i \in chosen : now - History[i].createdAt >= days

RecontactRule(s) ==
  IF History = <<>> THEN TRUE
  ELSE IF s.recontactDays # <<>>
  THEN AllAtLeast({i \in DOMAIN History : History[i].surveyId = s.id}, s.recontactDays[1])
  ELSE IF products[last.environmentId].recontactDays # <<>>
  THEN AllAtLeast(DOMAIN History, products[last.environmentId].recontactDays[1])
  ELSE TRUE

\* C12: respondMultiple always passes the display-frequency stage, displayOnce iff
\* the person has no display of the survey, displayMultiple iff the person has no
\* display of it with a response; any other displayOption fails the whole call.
C12_DisplayOptionStage ==
  SyncReturned =>
    IF \E s \in Candidates : ~KnownDisplayOption(s)
    THEN ~last.ok /\ last.error = "Invalid displayOption"
    ELSE last.ok =>
           \A s \in Candidates :
             /\ IsReturned(s) => DisplayRule(s)
             /\ (DisplayRule(s) /\ RecontactRule(s) /\ s.segment = <<>>) => IsReturned(s)

\* Witness of C12: a displayOnce survey with a display is left out of a result that
\* holds the other survey.
C12_Witness ==
  /\ SyncReturned /\ last.ok
  /\ \E s \in Candidates :
       /\ s.displayOption = "displayOnce"
       /\ \E i \in DOMAIN History : History[i].surveyId = s.id
       /\ ~IsReturned(s)
  /\ last.value # <<>>

\* C13: the recontact stage passes a survey when the person has no display; else,
\* with the survey's recontactDays set, iff the person has no display of the survey
\* or its most recent one is at least that many days old; else, with the product's
\* recontactDays set, iff the most recent display of any survey is at least that
\* many days old; else always.
C13_RecontactStage ==
  (SyncReturned /\ last.ok) =>
    \A s \in Candidates :
      /\ IsReturned(s) => RecontactRule(s)
      /\ (RecontactRule(s) /\ DisplayRule(s) /\ s.segment = <<>>) => IsReturned(s)

\* Witness of C13: a survey with recontactDays whose last display is too recent is
\* left out although a display of the other survey is old enough.
C13_Witness ==
  /\ SyncReturned /\ last.ok
  /\ \E s \in Candidates :
       /\ s.recontactDays # <<>>
       /\ ~RecontactRule(s) /\ ~IsReturned(s)
       /\ \E i \in DOMAIN History :
            History[i].surveyId # s.id /\ now - History[i].createdAt >= s.recontactDays[1]

\* C14 as stated: exactly the inProgress surveys of the environment pass stage 1.
C14_InProgressOnly ==
  (SyncReturned /\ last.ok) =>
    \A s \in Stored :
      /\ IsReturned(s) => s.status = "inProgress"
      /\ (s.status = "inProgress" /\ DisplayRule(s) /\ RecontactRule(s)
            /\ s.segment = <<>>) => IsReturned(s)

\* C14: stage 1 keeps exactly the surveys with status inProgress and type web: each
\* of them goes on to the display-frequency stage, no other survey is returned.
C14_InProgressWebOnly ==
  SyncReturned =>
    /\ last.ok => \A s \in Stored :
         /\ IsReturned(s) => (s.status = "inProgress" /\ s.type = "web")
         /\ (s.status = "inProgress" /\ s.type = "web" /\ DisplayRule(s)
               /\ RecontactRule(s) /\ s.segment = <<>>) => IsReturned(s)
    /\ (\E s \in Stored : s.status = "inProgress" /\ s.type = "web"
                              /\ ~KnownDisplayOption(s)) => ~last.ok

\* Witness of C14: an inProgress link survey is left out of a result that holds the
\* inProgress web survey.
C14_Witness ==
  /\ SyncReturned /\ last.ok
  /\ \E s \in Stored : s.status = "inProgress" /\ s.type = "link" /\ ~IsReturned(s)
  /\ \E s \in Stored : s.status = "inProgress" /\ s.type = "web" /\ IsReturned(s)

\* ------------------------------------------------------ the segment stage
Attributes == getPerson(last.personId)[1].attributes
Triples(s) == transformSegmentFiltersToAttributeFilters(s.segment[1].filters)
PassesEarlier(s) == DisplayRule(s) /\ RecontactRule(s)
Lacks(attr) == attr \notin DOMAIN Attributes \/ Attributes[attr] = ""

TripleHolds(t) ==
  /\ ~Lacks(t.attributeClassName)
  /\ \/ t.operator = "equals" /\ Attributes[t.attributeClassName] = t.value
     \/ t.operator = "notEquals" /\ Attributes[t.attributeClassName] # t.value

\* C15: without a version, a survey whose segment filters translate to attribute
\* triples is returned iff every triple holds for the person; no triple at all
\* passes; an equals triple holds iff the person's value is the filter's value.
C15_LegacyAllTriples ==
  (SyncReturned /\ last.version = "") =>
    \A s \in Candidates :
      (s.segment # <<>> /\ Triples(s).ok /\ PassesEarlier(s)) =>
        /\ last.ok
        /\ IsReturned(s) <=> \A i \in DOMAIN Triples(s).list : TripleHolds(Triples(s).list[i])

\* Witness of C15: a legacy call left out a survey with two equals triples of which
\* the person meets one only.
C15_Witness ==
  /\ SyncReturned /\ last.version = "" /\ last.ok
  /\ \E s \in Candidates :
       /\ s.segment # <<>> /\ Triples(s).ok /\ Len(Triples(s).list) = 2
       /\ \E i, j \in DOMAIN Triples(s).list :
            TripleHolds(Triples(s).list[i]) /\ ~TripleHolds(Triples(s).list[j])
       /\ ~IsReturned(s)

\* C16: without a version, a triple over an attribute the person lacks (or holds
\* with an empty value) is false for equals and for notEquals: the call does not
\* fail and the survey is left out.
C16_LegacyAbsentAttribute ==
  (SyncReturned /\ last.version = "") =>
    \A s \in Candidates :
      (/\ s.segment # <<>> /\ Triples(s).ok /\ PassesEarlier(s)
       /\ \E i \in DOMAIN Triples(s).list :
            /\ Triples(s).list[i].operator \in {"equals", "notEquals"}
            /\ Lacks(Triples(s).list[i].attributeClassName))
      => (last.ok /\ ~IsReturned(s))

\* Witness of C16: a legacy call left out a survey whose notEquals triple names an
\* attribute the person lacks.
C16_Witness ==
  /\ SyncReturned /\ last.version = "" /\ last.ok
  /\ \E s \in Candidates :
       /\ s.segment # <<>> /\ Triples(s).ok
       /\ \E i \in DOMAIN Triples(s).list :
            /\ Triples(s).list[i].operator = "notEquals"
            /\ Lacks(Triples(s).list[i].attributeClassName)
       /\ ~IsReturned(s)

\* Every survey without segment that passes the earlier stages is returned.
OthersReturned(s) ==
  \A o \in Candidates \ {s} : (o.segment = <<>> /\ PassesEarlier(o)) => IsReturned(o)

\* C17: without a version, a survey whose segment filters have no translation to
\* triples is left out, the call does not fail, and the other surveys are returned
\* as without it.
C17_LegacyUntranslatable ==
  (SyncReturned /\ last.version = "") =>
    \A s \in Candidates :
      (s.segment # <<>> /\ ~Triples(s).ok /\ PassesEarlier(s)) =>
        (last.ok /\ ~IsReturned(s) /\ OthersReturned(s))

HasOperator(node) == node.kind \in {"attribute", "device"}
UnrecognizedOperator(filters) ==
  \E i \in DOMAIN filters :
    HasOperator(filters[i]) /\ filters[i].operator \notin {"equals", "notEquals"}

\* The evaluation of the survey's segment failed in this call: its filters hold an
\* unrecognized operator, or its evaluateSegment was run and rejected.
EvaluationFailed(s) ==
  /\ s.segment # <<>> /\ s.segment[1].filters # <<>>
  /\ \/ UnrecognizedOperator(s.segment[1].filters)
     \/ ~last.hit /\ last.version # "" /\ s.id \in last.faults

\* C18: a survey whose segment evaluation fails is left out, the call itself does
\* not fail, and the other surveys are returned.
C18_EvaluationFailureContained ==
  SyncReturned =>
    \A s \in Candidates :
      (PassesEarlier(s) /\ EvaluationFailed(s)) =>
        (last.ok /\ ~IsReturned(s) /\ OthersReturned(s))

\* ------------------------------------------- the status rules of updateSurvey
\* updateSurvey requests with every status and with runOnDate null, in the past,
\* today and in the future, while the days pass.
MaxDay == 12

SurveyStatuses == {"draft", "scheduled", "inProgress", "paused", "completed"}
RunOnDateInputs == {<<>>, <<9>>, <<11>>, <<13>>}
ScheduleSegmentInputs == {<<>>, <<PhoneOnly>>}

\* The survey was created as a draft, or is running, paused or completed.
InitSchedule ==
  /\ \E st \in SurveyStatuses \ {"scheduled"} :
       surveys = (1 :> SurveyRow(1, <<"n0">>, st, {1}, <<1>>))
  /\ segments = (0 :> SegmentRow(1, FALSE, 0, PlanPro)) @@ (1 :> SegmentRow(1, TRUE, 1, <<>>))
  /\ nextId = 2
  /\ people = (1 :> [environmentId |-> 1, attributes |-> [a \in {"plan"} |-> "pro"]])
  /\ displays = (1 :> <<>>)
  /\ actions = (1 :> {})
  /\ products = (1 :> [recontactDays |-> <<>>])
  /\ now = 10
  /\ responses = <<>>
  /\ cache = <<>>
  /\ op = Idle
  /\ last = NoLast
  /\ requests = 0

\* A day passes.
Tick ==
  /\ now < MaxDay
  /\ now' = now + 1
  /\ UNCHANGED <<store, cache, op, last, people, displays, actions, products, requests, responses>>

NextSchedule ==
  \/ \E st \in SurveyStatuses, d \in RunOnDateInputs, g \in ScheduleSegmentInputs :
       UpdateSurveyStart(1, <<"n1">>, st, d, NoLanguages, {"a"}, g)
  \/ UpdateSurveySegment
  \/ UpdateSurveyWrite
  \/ UpdateSurveyRevalidate
  \/ ReadSurvey(1)
  \/ Tick

SpecSchedule == InitSchedule /\ [][NextSchedule]_vars

\* The prisma.survey.update of an updateSurvey request is done in this step.
UpdateWritten ==
  /\ op.name = "updateSurvey" /\ op.pc = "write"
  /\ op'.name = "updateSurvey" /\ op'.pc = "revalidate"

\* C19: the row an updateSurvey stores with status "scheduled" has a runOnDate,
\* and that date is later than the time of the update; a request whose runOnDate
\* is null or not in the future never stores "scheduled".
C19_ScheduledHasFutureRunOnDate ==
  [][ UpdateWritten /\ surveys'[op.id].status = "scheduled"
        => /\ surveys'[op.id].runOnDate # <<>>
           /\ surveys'[op.id].runOnDate[1] > now ]_vars

\* C20: an updateSurvey request with status "scheduled" and runOnDate null stores
\* the status "inProgress", and the rest of the request leaves it "inProgress".
C20_ScheduledWithoutDateRuns ==
  [][ op.name = "updateSurvey" /\ op.status = "scheduled" /\ op.runOnDate = <<>>
        => /\ UpdateWritten => surveys'[op.id].status = "inProgress"
           /\ op.pc = "revalidate" => surveys'[op.id].status = "inProgress" ]_vars

\* A paused survey updated with status "scheduled" and runOnDate null is stored
\* running, and the request is about to return.
C20_Witness ==
  /\ op.name = "updateSurvey" /\ op.pc = "revalidate"
  /\ op.status = "scheduled" /\ op.runOnDate = <<>>
  /\ op.current[1].status = "paused"
  /\ surveys[op.id].status = "inProgress"
  /\ surveys[op.id].runOnDate = <<>>

\* ------------------------------------------------ private segments and surveys
PrivateSegments == {g \in DOMAIN segments : segments[g].isPrivate}

\* C21: whenever no mutation is in flight, each private segment is referenced by
\* exactly one survey.
C21_PrivateSegmentHasOneSurvey ==
  op = Idle => \A g \in PrivateSegments : Cardinality(SegmentSurveys(g)) = 1

\* deleteSurvey returns in this step.
DeleteReturns == op.name = "deleteSurvey" /\ op.pc = "revalidate" /\ op' = Idle

\* C22: when deleteSurvey returns, the private segment of the deleted survey is no
\* longer stored, and a shared segment it was attached to is still stored, with
\* the other surveys attached to it.
C22_DeleteSurveySegment ==
  [][ DeleteReturns /\ op.current[1].segment # <<>>
        => LET segment == op.current[1].segment[1] IN
           IF segment.isPrivate
           THEN segment.id \notin DOMAIN segments'
           ELSE /\ segment.id \in DOMAIN segments'
                /\ {i \in DOMAIN surveys' : surveys'[i].segmentId = <<segment.id>>}
                     = segment.surveys \ {op.id} ]_vars

\* ------------------------------------------- trigger reconciliation of updateSurvey
\* updateSurvey requests on a survey of environment 2 bound to any of its action
\* classes, with any requested trigger names, the empty name among them.
RequestedTriggerInputs == SUBSET ({ac.name : ac \in TriggerClassTable} \cup {""})

InitTriggers ==
  /\ \E bound \in SUBSET {ac.id : ac \in TriggerClassTable} :
       surveys = (1 :> SurveyRow(2, <<"n0">>, "inProgress", bound, <<>>))
  /\ segments = <<>>
  /\ nextId = 2
  /\ people = (1 :> [environmentId |-> 2, attributes |-> [a \in {"plan"} |-> "pro"]])
  /\ displays = (1 :> <<>>)
  /\ actions = (1 :> {})
  /\ products = (2 :> [recontactDays |-> <<>>])
  /\ now = 10
  /\ responses = <<>>
  /\ cache = <<>>
  /\ op = Idle
  /\ last = NoLast
  /\ requests = 0

NextTriggers ==
  \/ \E t \in RequestedTriggerInputs : UpdateSurveyStart(1, <<"n1">>, "inProgress", NoRunOnDate, NoLanguages, t, <<>>)
  \/ UpdateSurveyWrite
  \/ UpdateSurveyRevalidate
  \/ ReadSurvey(1)
  \/ \E ac \in TriggerClassTable : ReadSurveysByActionClassId(ac.id)

SpecTriggers == InitTriggers /\ [][NextTriggers]_vars

\* The names of the action classes a survey is bound to.
BoundNames(id) == {ActionClassNameOf(a) : a \in surveys[id].triggers}

ByActionClassTags(names) ==
  {surveyTagByActionClassId(getActionClassIdFromName(TriggerClassTable, n)) : n \in names}

\* C27: with R the requested trigger names (empty names ignored) and C the names
\* the survey is bound to, the write of updateSurvey creates the bindings of R \ C,
\* deletes those of C \ R and keeps those of R \cap C, so that the survey is bound
\* to exactly R; the by-action-class tags the request has revalidated are exactly
\* those of (R \ C) \cup (C \ R).
C27_TriggerReconciliation ==
  [][ UpdateWritten
        => LET R == op.triggers \ {""}
               C == BoundNames(op.id)
               after == {ActionClassNameOf(a) : a \in surveys'[op.id].triggers}
           IN  /\ after \ C = R \ C
               /\ C \ after = C \ R
               /\ after = R
               /\ op.revalidated = ByActionClassTags((R \ C) \cup (C \ R)) ]_vars

\* A survey bound to two action classes was updated with one of them, a new one
\* and an empty name: one binding created, one deleted, one kept.
C27_Witness ==
  /\ op.name = "updateSurvey" /\ op.pc = "revalidate"
  /\ "" \in op.triggers
  /\ LET R == op.triggers \ {""}
         C == op.current[1].triggers
     IN  /\ R \ C # {} /\ C \ R # {} /\ R \cap C # {}
         /\ BoundNames(op.id) = R

\* ------------------------------------------------- the survey type migration
\* main(): one interactive transaction (prisma.$transaction with a timeout) that
\* turns every "web" survey into an "app" or a "website" survey. The statements
\* of the transaction work on op.surveys and op.segments, which the store takes
\* over when the transaction commits and drops when it is rolled back.
MaxRuns == 2

\* Faulty variant: the responses are ordered by createdAt ascending.
findLatestResponse_Oldest(surveyId) ==
  LET rs == {r \in DOMAIN responses : responses[r].surveyId = surveyId}
  IN  IF rs = {} THEN <<>>
      ELSE <<responses[CHOOSE r \in rs :
                         \A q \in rs : responses[q].createdAt >= responses[r].createdAt]>>

\* tx.response.findFirst({where: {surveyId}, orderBy: {createdAt: "desc"}})
findLatestResponse(surveyId) ==
  LET rs == {r \in DOMAIN responses : responses[r].surveyId = surveyId}
  IN  IF rs = {} THEN <<>>
      ELSE <<responses[CHOOSE r \in rs :
                         \A q \in rs : responses[q].createdAt <= responses[r].createdAt]>>

\* The surveys and segments after the segments ids are deleted: the surveys
\* that referred to a deleted segment have no segment (the relation is optional).
deleteSegments(S, G, ids) ==
  [ surveys  |-> [i \in DOMAIN S |->
                    IF S[i].segmentId # <<>> /\ S[i].segmentId[1] \in ids
                    THEN [S[i] EXCEPT !.segmentId = <<>>] ELSE S[i]],
    segments |-> [g \in DOMAIN G \ ids |-> G[g]] ]

\* tx.survey.findMany({where: {type: "web"}, include: {segment: true}})
findWebSurveys ==
  { [ id |-> i,
      segment |-> IF surveys[i].segmentId = <<>> THEN <<>>
                  ELSE LET g == surveys[i].segmentId[1]
                       IN  <<[id |-> g, isPrivate |-> segments[g].isPrivate]>> ] :
      i \in {j \in DOMAIN surveys : surveys[j].type = "web"} }

MigrationBegin ==
  /\ op = Idle
  /\ requests < MaxRuns
  /\ requests' = requests + 1
  /\ op' = [name |-> "migration", pc |-> "loop", webSurveys |-> findWebSurveys,
            surveys |-> surveys, segments |-> segments]
  /\ last' = NoLast
  /\ UNCHANGED <<store, cache, world>>

Rollback ==
  /\ op' = Idle
  /\ last' = Failed("migration", 0)

\* The statements of one loop iteration, on the surveys S and segments G of the
\* transaction: [ok, surveys, segments]; ok is FALSE when tx.segment.delete finds
\* no segment to delete and throws.
migrateSurvey(webSurvey, S, G) ==
  LET latestResponse == findLatestResponse(webSurvey.id)
      orphans == {g \in DOMAIN G : G[g].title = webSurvey.id /\ G[g].isPrivate}
  IN  IF latestResponse # <<>> /\ latestResponse[1].personId # <<>>
      THEN [ok |-> TRUE, surveys |-> [S EXCEPT ![webSurvey.id].type = "app"], segments |-> G]
      ELSE LET typed == [S EXCEPT ![webSurvey.id].type = "website"] IN
           IF webSurvey.segment = <<>>
           THEN LET d == deleteSegments(typed, G, orphans)
                IN  [ok |-> TRUE, surveys |-> d.surveys, segments |-> d.segments]
           ELSE IF webSurvey.segment[1].isPrivate
           THEN IF webSurvey.segment[1].id \notin DOMAIN G
                THEN [ok |-> FALSE, surveys |-> typed, segments |-> G]
                ELSE LET d == deleteSegments(typed, G, {webSurvey.segment[1].id} \cup orphans)
                     IN  [ok |-> TRUE, surveys |-> d.surveys, segments |-> d.segments]
           ELSE LET d == deleteSegments([typed EXCEPT ![webSurvey.id].segmentId = <<>>],
                                        G, orphans)
                IN  [ok |-> TRUE, surveys |-> d.surveys, segments |-> d.segments]

\* Faulty variant: every statement is applied to the store at once, outside a transaction.
MigrateSurvey_Autocommit(id) ==
  /\ op.name = "migration" /\ op.pc = "loop"
  /\ \E webSurvey \in op.webSurveys :
       /\ webSurvey.id = id
       /\ LET r == migrateSurvey(webSurvey, op.surveys, op.segments) IN
          /\ surveys' = r.surveys
          /\ segments' = r.segments
          /\ IF r.ok
             THEN /\ op' = [op EXCEPT !.webSurveys = @ \ {webSurvey},
                                      !.surveys = r.surveys, !.segments = r.segments]
                  /\ UNCHANGED last
             ELSE Rollback
  /\ UNCHANGED <<nextId, cache, world, requests>>

\* One iteration of the loop over webSurveys, for the web survey id.
MigrateSurvey(id) ==
  /\ op.name = "migration" /\ op.pc = "loop"
  /\ \E webSurvey \in op.webSurveys :
       /\ webSurvey.id = id
       /\ LET r == migrateSurvey(webSurvey, op.surveys, op.segments) IN
          IF r.ok
          THEN /\ op' = [op EXCEPT !.webSurveys = @ \ {webSurvey},
                                   !.surveys = r.surveys, !.segments = r.segments]
               /\ UNCHANGED last
          ELSE Rollback
  /\ UNCHANGED <<store, cache, world, requests>>

\* The callback has returned: the transaction commits.
MigrationCommit ==
  /\ op.name = "migration" /\ op.pc = "loop"
  /\ op.webSurveys = {}
  /\ surveys' = op.surveys
  /\ segments' = op.segments
  /\ op' = Idle
  /\ last' = [NoLast EXCEPT !.name = "migration", !.ok = TRUE]
  /\ UNCHANGED <<nextId, cache, world, requests>>

\* A statement of the transaction fails, or the transaction exceeds its timeout.
MigrationAbort ==
  /\ op.name = "migration" /\ op.pc = "loop"
  /\ op.webSurveys # {}
  /\ Rollback
  /\ UNCHANGED <<store, cache, world, requests>>

\* The stores the migration meets: surveys of type web or link; without segment,
\* with the private segment created for them, with the shared segment, or with
\* the private segment of an earlier survey (loadNewSegmentInSurvey attaches any
\* segment); with or without the private segments that no survey refers to.
MigrationTypes == {"web", "link"}
LatestInputs == {"none", "person", "anonymous"}
SegmentChoices(i) == {<<>>, <<0>>} \cup {<<j>> : j \in 1..i}

\* The responses of survey i: none, or an older one and the latest one, of which
\* only the latest (latest = "person") or only the older one has a person.
ResponsesOf(i, latest) ==
  IF latest = "none" THEN <<>>
  ELSE (2 * i - 1 :> [surveyId |-> i, createdAt |-> 1, notes |-> {},
                      personId |-> IF latest = "person" THEN <<>> ELSE <<1>>])
    @@ (2 * i :> [surveyId |-> i, createdAt |-> 2, notes |-> {},
                  personId |-> IF latest = "person" THEN <<1>> ELSE <<>>])

RECURSIVE Merge(_, _)
Merge(f, ids) ==
  IF ids = {} THEN <<>>
  ELSE LET i == CHOOSE j \in ids : TRUE IN f[i] @@ Merge(f, ids \ {i})

InitMigration ==
  /\ \E type \in [SurveyIds -> MigrationTypes],
        latest \in [SurveyIds -> LatestInputs],
        unreferred \in BOOLEAN :
       \E seg \in {f \in [SurveyIds -> {<<>>, <<0>>} \cup {<<j>> : j \in SurveyIds}] :
                    \A i \in SurveyIds : f[i] \in SegmentChoices(i)} :
         /\ surveys = [i \in SurveyIds |->
                         [SurveyRow(1, <<"n0">>, "inProgress", {}, seg[i]) EXCEPT !.type = type[i]]]
         /\ segments = [g \in {0} \cup {j \in SurveyIds : unreferred \/ \E i \in SurveyIds : seg[i] = <<j>>}
                          |-> SegmentRow(1, g # 0, g, <<>>)]
         /\ responses = Merge([i \in SurveyIds |-> ResponsesOf(i, latest[i])], SurveyIds)
  /\ nextId = MaxSurveys + 1
  /\ people = (1 :> [environmentId |-> 1, attributes |-> [a \in {"plan"} |-> "pro"]])
  /\ displays = (1 :> <<>>)
  /\ actions = (1 :> {})
  /\ products = (1 :> [recontactDays |-> <<>>])
  /\ now = 10
  /\ cache = <<>>
  /\ op = Idle
  /\ last = NoLast
  /\ requests = 0

NextMigration ==
  \/ MigrationBegin
  \/ \E i \in SurveyIds : MigrateSurvey(i)
  \/ MigrationCommit
  \/ MigrationAbort

SpecMigration == InitMigration /\ [][NextMigration]_vars

\* The transaction of the migration commits in this step.
MigrationCommits == op.name = "migration" /\ last'.name = "migration" /\ last'.ok

WebSurveys == {i \in DOMAIN surveys : surveys[i].type = "web"}

\* Survey i has a response with a person that no response of i is later than.
LatestHasPerson(i) ==
  \E r \in DOMAIN responses :
    /\ responses[r].surveyId = i /\ responses[r].personId # <<>>
    /\ \A q \in DOMAIN responses :
         responses[q].surveyId = i => responses[q].createdAt <= responses[r].createdAt

Referrers(g) == {i \in DOMAIN surveys : surveys[i].segmentId = <<g>>}

ToWebsite == {i \in WebSurveys : ~LatestHasPerson(i)}

\* C24: when the migration commits, for every survey turned into a website
\* survey its private segment is deleted, a shared segment it was attached to is
\* still stored, detached from it and attached to the other surveys as before
\* (those not turned into website surveys themselves), and no private segment
\* titled with its id is left; every survey turned into an app survey refers to
\* the segment it referred to, which is stored unchanged.
C24_MigrationSegments ==
  [][ MigrationCommits
        => /\ \A i \in ToWebsite :
                /\ \A g \in DOMAIN segments' :
                     ~(segments'[g].isPrivate /\ segments'[g].title = i)
                /\ surveys[i].segmentId # <<>> =>
                     LET g == surveys[i].segmentId[1] IN
                     IF segments[g].isPrivate
                     THEN g \notin DOMAIN segments'
                     ELSE /\ g \in DOMAIN segments' /\ segments'[g] = segments[g]
                          /\ surveys'[i].segmentId = <<>>
                          /\ \A j \in Referrers(g) \ ToWebsite : surveys'[j].segmentId = <<g>>
           /\ \A i \in WebSurveys \ ToWebsite :
                /\ surveys'[i].segmentId = surveys[i].segmentId
                /\ surveys[i].segmentId # <<>> =>
                     LET g == surveys[i].segmentId[1] IN
                     g \in DOMAIN segments' /\ segments'[g] = segments[g] ]_vars

\* C25: the surveys and segments of the store change in no step of the migration
\* but the commit of its transaction, which leaves no web survey; a run that
\* fails or times out leaves them as they were.
C25_MigrationAllOrNothing ==
  [][ /\ ~MigrationCommits => UNCHANGED <<surveys, segments>>
      /\ MigrationCommits => \A i \in DOMAIN surveys' : surveys'[i].type # "web" ]_vars

\* The transaction has migrated one web survey and deleted a segment, another web
\* survey is still to do, and the store shows none of it.
C25_Witness ==
  /\ op.name = "migration" /\ op.webSurveys # {}
  /\ op.surveys # surveys
  /\ DOMAIN op.segments # DOMAIN segments
  /\ WebSurveys = {w.id : w \in findWebSurveys}
  /\ Cardinality(WebSurveys) > Cardinality(op.webSurveys)

\* --------------------------------------------------- canUserResolveResponseNote
Users == {1, 2}
ResponseIds == {1, 2}
ResponseNoteIds == {1, 2}

\* getResponse(responseId) of the response service.
getResponse(responseId) ==
  IF responseId \in DOMAIN responses THEN <<responses[responseId]>> ELSE <<>>

\* canUserAccessResponse(userId, responseId) of the response service: user 1 has
\* access to every response, user 2 to response 2 only.
canUserAccessResponse(userId, responseId) ==
  responseId \in DOMAIN responses /\ (userId = 1 \/ responseId = 2)

responseNoteTag(responseNoteId) == <<"responseNotes", "id", responseNoteId>>

canUserResolveResponseNoteKey(userId, responseNoteId) ==
  <<"canUserResolveResponseNote", userId, responseNoteId>>

canUserResolveResponseNoteCallback(userId, responseId, responseNoteId) ==
  LET response == getResponse(responseId)
      noteExistsOnResponse == response # <<>> /\ responseNoteId \in response[1].notes
  IN  IF ~noteExistsOnResponse THEN FALSE
      ELSE canUserAccessResponse(userId, responseId)

canUserResolveResponseNote(c, userId, responseId, responseNoteId) ==
  LET key == canUserResolveResponseNoteKey(userId, responseNoteId)
      value == <<canUserResolveResponseNoteCallback(userId, responseId, responseNoteId)>>
  IN  IF key \in DOMAIN c
      THEN [cache |-> c, hit |-> TRUE, error |-> "", value |-> c[key].value]
      ELSE [cache |-> Store(c, key, Entry(value, {responseNoteTag(responseNoteId)}, "", "")),
            hit |-> FALSE, error |-> "", value |-> value]

ResolveRequest(userId, responseId, responseNoteId) ==
  LET r == canUserResolveResponseNote(cache, userId, responseId, responseNoteId) IN
  /\ cache' = r.cache
  /\ last' = [ name |-> "canUserResolveResponseNote", ok |-> TRUE, hit |-> r.hit,
               value |-> r.value[1], userId |-> userId, responseId |-> responseId,
               responseNoteId |-> responseNoteId ]
  /\ UNCHANGED <<store, op, world, requests>>

\* Response 1 carries note 1; response 2 carries no note, or note 2.
InitNotes ==
  /\ \E notes \in {{}, {2}} :
       responses = (1 :> [surveyId |-> 1, createdAt |-> 1, personId |-> <<>>, notes |-> {1}])
                @@ (2 :> [surveyId |-> 1, createdAt |-> 2, personId |-> <<>>, notes |-> notes])
  /\ surveys = (1 :> SurveyRow(1, <<"n0">>, "inProgress", {}, <<>>))
  /\ segments = <<>>
  /\ nextId = 2
  /\ people = (1 :> [environmentId |-> 1, attributes |-> [a \in {"plan"} |-> "pro"]])
  /\ displays = (1 :> <<>>)
  /\ actions = (1 :> {})
  /\ products = (1 :> [recontactDays |-> <<>>])
  /\ now = 10
  /\ cache = <<>>
  /\ op = Idle
  /\ last = NoLast
  /\ requests = 0

NextNotes ==
  \/ \E u \in Users, r \in ResponseIds, n \in ResponseNoteIds : ResolveRequest(u, r, n)
  \/ \E u \in Users, n \in ResponseNoteIds : Expire(canUserResolveResponseNoteKey(u, n))

SpecNotes == InitNotes /\ [][NextNotes]_vars

\* C26: a call of canUserResolveResponseNote returns true only if the note is
\* among the notes of the response it was called with and the user has access
\* to that response.
C26_ResolveOnlyOwnResponse ==
  last.name = "canUserResolveResponseNote" /\ last.value
    => /\ last.responseId \in DOMAIN responses
       /\ last.responseNoteId \in responses[last.responseId].notes
       /\ canUserAccessResponse(last.userId, last.responseId)

\* ------------------------------------------------ the languages of updateSurvey
\* updateSurvey requests without languages or with any bindings of three
\* languages, on a survey bound to any of two of them.
LanguageIds == {1, 2, 3}
LanguageFlags == [default : BOOLEAN, enabled : BOOLEAN]

\* The bindings of the languages ids, at most one of them the default.
Bindings(ids) ==
  UNION { {f \in [domain -> LanguageFlags] :
             Cardinality({i \in domain : f[i].default}) <= 1} : domain \in SUBSET ids }

LanguageInputs == {NoLanguages} \cup {<<f>> : f \in Bindings(LanguageIds)}

InitLanguages ==
  /\ \E bound \in Bindings({1, 2}) :
       surveys = (1 :> [SurveyRow(1, <<"n0">>, "inProgress", {}, <<>>) EXCEPT !.languages = bound])
  /\ segments = <<>>
  /\ nextId = 2
  /\ people = (1 :> [environmentId |-> 1, attributes |-> [a \in {"plan"} |-> "pro"]])
  /\ displays = (1 :> <<>>)
  /\ actions = (1 :> {})
  /\ products = (1 :> [recontactDays |-> <<>>])
  /\ now = 10
  /\ responses = <<>>
  /\ cache = <<>>
  /\ op = Idle
  /\ last = NoLast
  /\ requests = 0

NextLanguages ==
  \/ \E l \in LanguageInputs :
       UpdateSurveyStart(1, <<"n1">>, "inProgress", NoRunOnDate, l, {}, <<>>)
  \/ UpdateSurveyWrite
  \/ UpdateSurveyRevalidate
  \/ ReadSurvey(1)

SpecLanguages == InitLanguages /\ [][NextLanguages]_vars

Defaults(bindings) == {i \in DOMAIN bindings : bindings[i].default}

UpdateRejected == op = Idle /\ last'.name = "updateSurvey" /\ ~last'.ok

\* C29: an updateSurvey that fails because the survey does not exist or because
\* its segment filters are malformed writes nothing: surveys, with their
\* languages and triggers, and segments are as before.
C29_RejectedUpdateWritesNothing ==
  [][ UpdateRejected => UNCHANGED <<surveys, segments, nextId>> ]_vars

\* An update of a stored survey that has a segment was rejected in its first
\* step, for its malformed filters.
C29_Witness ==
  /\ op = Idle /\ last.name = "updateSurvey" /\ ~last.ok
  /\ last.id \in DOMAIN surveys
  /\ surveys[last.id].segmentId # <<>>
  /\ requests > 0

====
